---- MODULE Spec2Model ----
(***************************************************************************)
(* Model of the per-user, multi-period rate limiter of                     *)
(* @sudobility/subscription_service: the period calculator (utils/time),   *)
(* the counter table (schema/rate-limits), the RateLimitChecker engine     *)
(* (helpers/RateLimitChecker) and the Hono middleware shell.               *)
(***************************************************************************)
EXTENDS Integers, Sequences, FiniteSets, TLC

\* ------------------------------------------------------------------------
\* Bounds of the model
\* ------------------------------------------------------------------------

\* Spec: number of calls of one behaviour, last clock index they may read
MaxCalls == 2
MaxTick == 1
\* SpecSeq: number of calls, last clock index, largest numeric limit drawn
SeqCalls == 3
SeqTick == 3
MaxLimit == 1
\* SpecRace: number of calls, and the hourly limit they share
RaceCalls == 6
RaceLimit == 3
\* SpecLate: number of calls, last clock index
LateCalls == 3
LateTick == 1
\* SpecMw: number of requests, last clock index
MwCalls == 2
MwTick == 1
\* SpecFault: number of calls
FaultCalls == 2
\* SpecRetry: number of increments performed, last clock index
RetryOps == 3
RetryTick == 1
\* SpecUsers: number of calls
UsersCalls == 3
\* SpecEnt: longest list of entitlement names
MaxEntLen == 3
\* SpecTime: number of years from 2024 the instants are drawn from, longest
\* chain of applications
TimeYears == 2
TimeSteps == 2
\* SpecRoll: number of calls, last clock index
RollCalls == 4
RollTick == 2
\* SpecSub: longest list of entitlements in a provider response
SubMaxEntitlements == 2
\* SpecFallback: number of pairs of requests
FallbackPairs == 2
\* SpecWait: number of lookups
WaitCalls == 2

\* ------------------------------------------------------------------------
\* JavaScript values: undefined / null, and Date
\* ------------------------------------------------------------------------

\* `undefined` (an absent optional field) and `null`; a present value v is <<v>>
Undefined == <<>>
Null == <<>>
Some(v) == <<v>>
IsDefined(x) == x # <<>>
Val(x) == x[1]

MsPerHour == 60 * 60 * 1000
MsPerDay == 24 * MsPerHour

\* A Date is its time value, kept as whole days since 1970-01-01 and the
\* milliseconds within that day (the time value is day * MsPerDay + ms).
Date(day, ms) == [day |-> day, ms |-> ms]

\* ECMAScript MakeDay for the first of a month: days from 1970-01-01 to the
\* civil date (y, m, 1), m counted from 0 and normalised into 0..11
DaysFromCivil(y, m) ==
  LET ym == y + (m \div 12)
      mn == (m % 12) + 1
      yy == IF mn <= 2 THEN ym - 1 ELSE ym
      era == yy \div 400
      yoe == yy - era * 400
      mp == IF mn > 2 THEN mn - 3 ELSE mn + 9
      doy == (153 * mp + 2) \div 5
      doe == yoe * 365 + (yoe \div 4) - (yoe \div 100) + doy
  IN  era * 146097 + doe - 719468

\* the civil date of a day number: [year, month (0..11), date (1..31)]
CivilFromDays(z) ==
  LET zz == z + 719468
      era == zz \div 146097
      doe == zz - era * 146097
      yoe == (doe - (doe \div 1460) + (doe \div 36524) - (doe \div 146096)) \div 365
      doy == doe - (365 * yoe + (yoe \div 4) - (yoe \div 100))
      mp == (5 * doy + 2) \div 153
      d == doy - ((153 * mp + 2) \div 5) + 1
      mn == IF mp < 10 THEN mp + 3 ELSE mp - 9
      yy == yoe + era * 400
  IN  [year |-> IF mn <= 2 THEN yy + 1 ELSE yy, month |-> mn - 1, date |-> d]

\* Date.UTC(year, month, date, hours, 0, 0, 0): out-of-range month, date and
\* hours carry over (month 12 is January of the next year, date 0 is the last
\* day of the month before)
DateUTC(y, m, d, h) ==
  LET t == h * MsPerHour
  IN  Date(DaysFromCivil(y, m) + (d - 1) + (t \div MsPerDay), t % MsPerDay)

getUTCFullYear(t) == CivilFromDays(t.day).year
getUTCMonth(t) == CivilFromDays(t.day).month
getUTCDate(t) == CivilFromDays(t.day).date
getUTCHours(t) == t.ms \div MsPerHour

\* Date.prototype.setUTCHours(h): minutes, seconds and ms are kept
setUTCHours(t, h) ==
  LET ms == h * MsPerHour + (t.ms % MsPerHour)
  IN  Date(t.day + (ms \div MsPerDay), ms % MsPerDay)

\* mutant of setUTCDate: a date past the end of the month stays on its last day
setUTCDateClamped(t, d) ==
  LET y == getUTCFullYear(t)
      m == getUTCMonth(t)
      last == DaysFromCivil(y, m + 1) - DaysFromCivil(y, m)
  IN  Date(DaysFromCivil(y, m) + ((IF d > last THEN last ELSE d) - 1), t.ms)

\* Date.prototype.setUTCDate(d): year, month and time of day are kept
setUTCDate(t, d) ==
  Date(DaysFromCivil(getUTCFullYear(t), getUTCMonth(t)) + (d - 1), t.ms)

\* a <= b on time values
NotAfter(a, b) == a.day < b.day \/ (a.day = b.day /\ a.ms <= b.ms)
Before(a, b) == NotAfter(a, b) /\ a # b

Min(a, b) == IF a <= b THEN a ELSE b
Max(a, b) == IF a >= b THEN a ELSE b

\* ------------------------------------------------------------------------
\* utils/time: the period calculator
\* ------------------------------------------------------------------------

\* mutant of getCurrentHourStart: the hour of the day is dropped
getCurrentHourStartOfDay(now) ==
  DateUTC(getUTCFullYear(now), getUTCMonth(now), getUTCDate(now), 0)

getCurrentHourStart(now) ==
  DateUTC(getUTCFullYear(now), getUTCMonth(now), getUTCDate(now), getUTCHours(now))

getNextHourStart(now) ==
  LET next == getCurrentHourStart(now)
  IN  setUTCHours(next, getUTCHours(next) + 1)

\* mutant of getCurrentDayStart: the hour of the day is kept
getCurrentDayStartKeepsHour(now) ==
  DateUTC(getUTCFullYear(now), getUTCMonth(now), getUTCDate(now), getUTCHours(now))

getCurrentDayStart(now) ==
  DateUTC(getUTCFullYear(now), getUTCMonth(now), getUTCDate(now), 0)

getNextDayStart(now) ==
  LET next == getCurrentDayStart(now)
  IN  setUTCDate(next, getUTCDate(next) + 1)

\* mutant of LastDayOfMonth: every month has 31 days
LastDayOfMonth31(year, month) == 31

\* new Date(Date.UTC(year, month + 1, 0)).getUTCDate()
LastDayOfMonth(year, month) == getUTCDate(DateUTC(year, month + 1, 0, 0))

\* mutant of getSubscriptionMonthStart: the anchor day itself still belongs to
\* the month before
getSubscriptionMonthStartStrict(subscriptionStartedAt, now) ==
  IF ~IsDefined(subscriptionStartedAt)
  THEN DateUTC(getUTCFullYear(now), getUTCMonth(now), 1, 0)
  ELSE
    LET startDay == getUTCDate(Val(subscriptionStartedAt))
        nowYear == getUTCFullYear(now)
        nowMonth == getUTCMonth(now)
        nowDay == getUTCDate(now)
        effectiveStartDay == Min(startDay, LastDayOfMonth(nowYear, nowMonth))
    IN  IF nowDay > effectiveStartDay
        THEN DateUTC(nowYear, nowMonth, effectiveStartDay, 0)
        ELSE
          LET prevMonth == IF nowMonth = 0 THEN 11 ELSE nowMonth - 1
              prevYear == IF nowMonth = 0 THEN nowYear - 1 ELSE nowYear
              effectivePrevStartDay ==
                Min(startDay, LastDayOfMonth(prevYear, prevMonth))
          IN  DateUTC(prevYear, prevMonth, effectivePrevStartDay, 0)

getSubscriptionMonthStart(subscriptionStartedAt, now) ==
  IF ~IsDefined(subscriptionStartedAt)
  THEN DateUTC(getUTCFullYear(now), getUTCMonth(now), 1, 0)
  ELSE
    LET startDay == getUTCDate(Val(subscriptionStartedAt))
        nowYear == getUTCFullYear(now)
        nowMonth == getUTCMonth(now)
        nowDay == getUTCDate(now)
        effectiveStartDay == Min(startDay, LastDayOfMonth(nowYear, nowMonth))
    IN  IF nowDay >= effectiveStartDay
        THEN DateUTC(nowYear, nowMonth, effectiveStartDay, 0)
        ELSE
          LET prevMonth == IF nowMonth = 0 THEN 11 ELSE nowMonth - 1
              prevYear == IF nowMonth = 0 THEN nowYear - 1 ELSE nowYear
              effectivePrevStartDay ==
                Min(startDay, LastDayOfMonth(prevYear, prevMonth))
          IN  DateUTC(prevYear, prevMonth, effectivePrevStartDay, 0)

\* mutant of getNextSubscriptionMonthStart: without a subscription the month
\* after December is January of the same year
getNextSubscriptionMonthStartSameYear(subscriptionStartedAt, now) ==
  LET currentMonthStart == getSubscriptionMonthStart(subscriptionStartedAt, now)
  IN  IF ~IsDefined(subscriptionStartedAt)
      THEN DateUTC(getUTCFullYear(currentMonthStart),
                   (getUTCMonth(currentMonthStart) + 1) % 12, 1, 0)
      ELSE
        LET startDay == getUTCDate(Val(subscriptionStartedAt))
            nextMonth == getUTCMonth(currentMonthStart) + 1
            nextYear == IF nextMonth > 11
                        THEN getUTCFullYear(currentMonthStart) + 1
                        ELSE getUTCFullYear(currentMonthStart)
            normalizedMonth == nextMonth % 12
            effectiveStartDay ==
              Min(startDay, LastDayOfMonth(nextYear, normalizedMonth))
        IN  DateUTC(nextYear, normalizedMonth, effectiveStartDay, 0)

getNextSubscriptionMonthStart(subscriptionStartedAt, now) ==
  LET currentMonthStart == getSubscriptionMonthStart(subscriptionStartedAt, now)
  IN  IF ~IsDefined(subscriptionStartedAt)
      THEN DateUTC(getUTCFullYear(currentMonthStart),
                   getUTCMonth(currentMonthStart) + 1, 1, 0)
      ELSE
        LET startDay == getUTCDate(Val(subscriptionStartedAt))
            nextMonth == getUTCMonth(currentMonthStart) + 1
            nextYear == IF nextMonth > 11
                        THEN getUTCFullYear(currentMonthStart) + 1
                        ELSE getUTCFullYear(currentMonthStart)
            normalizedMonth == nextMonth % 12
            effectiveStartDay ==
              Min(startDay, LastDayOfMonth(nextYear, normalizedMonth))
        IN  DateUTC(nextYear, normalizedMonth, effectiveStartDay, 0)

\* ------------------------------------------------------------------------
\* Inputs of the model
\* ------------------------------------------------------------------------

PeriodTypes == {"hourly", "daily", "monthly"}
Users == {"u1", "u2"}
\* the two workers that serve calls side by side: a call occupies one of them
\* until it returns, then the next call may take it
CallIds == {1, 2}
\* SpecHist: the calls started in a behaviour
HistCalls == 4

\* SpecAgree: the calls started before the checkOnly
AgreeCalls == 3

\* the c of the spec: the calls that may be in flight at once
MaxInFlight == Cardinality(CallIds)
Ticks == 0..Max(Max(Max(MaxTick, SeqTick), Max(LateTick, MwTick)), RollTick)

\* a Date from its civil fields, month counted from 1
At(y, mo, d, h, mi, s, ms) ==
  Date(DaysFromCivil(y, mo - 1) + (d - 1),
       h * MsPerHour + mi * 60 * 1000 + s * 1000 + ms)

\* the instants the wall clock passes through: the last millisecond of an
\* hour, the next hour, the next day (and calendar month), the clamped
\* anchor day of a short month, the next calendar month
Schedule ==
  << At(2025, 1, 31, 22, 59, 59, 999),
     At(2025, 1, 31, 23, 0, 0, 0),
     At(2025, 2, 1, 0, 0, 0, 0),
     At(2025, 2, 28, 0, 0, 0, 0),
     At(2025, 3, 1, 7, 30, 0, 0),
     At(2025, 3, 31, 23, 59, 59, 999) >>
ClockAt(i) == Schedule[Min(i, Len(Schedule) - 1) + 1]

\* subscriptionStartedAt: no subscription, or a purchase on the 31st
Anchors == {Null, Some(At(2024, 12, 31, 10, 15, 0, 0))}

LimitValues == {Undefined} \cup {Some(n) : n \in 0..MaxLimit}
AllLimits == [PeriodTypes -> LimitValues]
Limits(h, d, m) == [hourly |-> h, daily |-> d, monthly |-> m]

\* ------------------------------------------------------------------------
\* State
\* ------------------------------------------------------------------------

VARIABLES
  table,    \* rate_limit_counters: the set of its rows
  clock,    \* index into Schedule of the wall clock as last read (new Date())
  calls,    \* the calls in flight: arguments, position, locals and result
  started,  \* number of calls started so far
  admitted, \* history: per user and clock index, the calls admitted so far
  session,  \* the limits and anchor of a behaviour whose calls all share them
  eval      \* the function last applied outside a call: its arguments and value

vars == <<table, clock, calls, started, admitted, session, eval>>

ZeroCounts == [p \in PeriodTypes |-> 0]
NoRemaining == [p \in PeriodTypes |-> Undefined]
NoLimits == [p \in PeriodTypes |-> Undefined]
NoResult ==
  [kind |-> "none", allowed |-> FALSE, statusCode |-> 0,
   remaining |-> NoRemaining, exceededLimit |-> Undefined,
   limits |-> NoLimits, entries |-> <<>>]
NoEval == [fn |-> "none"]
NoInc == [p \in PeriodTypes |-> [st |-> "skip", existing |-> <<>>]]
NoResponse ==
  [status |-> 0, headers |-> {}, next |-> 0,
   body |-> [remaining |-> NoRemaining, exceededLimit |-> Undefined]]
IdleCall ==
  [pc |-> "idle", op |-> "none", userId |-> "u1", limits |-> NoLimits,
   subscriptionStartedAt |-> Null, tick |-> 0, now |-> ClockAt(0),
   periodType |-> "hourly", limit |-> 0,
   pending |-> {}, counts |-> ZeroCounts, inc |-> NoInc,
   written |-> {}, threw |-> FALSE, result |-> NoResult,
   via |-> "direct", response |-> NoResponse, effects |-> {}]

InFlight(c) == calls[c].pc \notin {"idle", "done"}
NumInFlight == Cardinality({c \in CallIds : InFlight(c)})
\* a new call takes the first slot that is free
FreeSlot(c) ==
  /\ ~InFlight(c)
  /\ \A d \in CallIds : d < c => InFlight(d)

\* ------------------------------------------------------------------------
\* The counter table (schema/rate-limits.ts) and its queries
\* ------------------------------------------------------------------------

\* mutant of RowsFor: the query does not filter by user
RowsForAnyUser(tbl, userId, periodType, periodStart) ==
  {r \in tbl : /\ r.period_type = periodType
               /\ r.period_start = periodStart}

\* .where(and(eq(user_id), eq(period_type), eq(period_start)))
RowsFor(tbl, userId, periodType, periodStart) ==
  {r \in tbl : /\ r.user_id = userId
               /\ r.period_type = periodType
               /\ r.period_start = periodStart}

\* mutant of UniqueIndexAllows: the table has no unique index
UniqueIndexMissing(tbl, userId, periodType, periodStart) == TRUE

\* uniqueIndex("rate_limit_counters_user_period_idx"): the store refuses an
\* insert whose (user_id, period_type, period_start) is already present
UniqueIndexAllows(tbl, userId, periodType, periodStart) ==
  RowsFor(tbl, userId, periodType, periodStart) = {}

\* id: uuid().defaultRandom(): a fresh id
FreshId(tbl) == Cardinality(tbl) + 1

\* mutant of PeriodStart: the monthly period is computed without the anchor
PeriodStartCalendarMonth(periodType, subscriptionStartedAt, now) ==
  CASE periodType = "hourly" -> getCurrentHourStart(now)
    [] periodType = "daily" -> getCurrentDayStart(now)
    [] periodType = "monthly" -> getSubscriptionMonthStart(Null, now)

\* the period start the engine computes for a period type
PeriodStart(periodType, subscriptionStartedAt, now) ==
  CASE periodType = "hourly" -> getCurrentHourStart(now)
    [] periodType = "daily" -> getCurrentDayStart(now)
    [] periodType = "monthly" ->
         getSubscriptionMonthStart(subscriptionStartedAt, now)

\* ------------------------------------------------------------------------
\* RateLimitChecker: the pure parts
\* ------------------------------------------------------------------------

\* mutant of calculateRemaining: what is left is taken to be the limit
calculateRemainingOfLimit(counts, limits) == limits

calculateRemaining(counts, limits) ==
  [p \in PeriodTypes |->
     IF IsDefined(limits[p])
     THEN Some(Max(0, Val(limits[p]) - counts[p]))
     ELSE Undefined]

\* mutant of Exceeded: the comparison lets one request too many through
ExceededOffByOne(counts, limits, p) ==
  IsDefined(limits[p]) /\ counts[p] > Val(limits[p])

Exceeded(counts, limits, p) ==
  IsDefined(limits[p]) /\ counts[p] >= Val(limits[p])

\* mutant of checkLimits: the periods are checked in the opposite order
checkLimitsReordered(counts, limits) ==
  LET remaining == calculateRemaining(counts, limits)
      Reject(p) ==
        [kind |-> "decision", allowed |-> FALSE, statusCode |-> 429,
         remaining |-> remaining, exceededLimit |-> Some(p),
         limits |-> limits, entries |-> <<>>]
  IN  IF Exceeded(counts, limits, "monthly") THEN Reject("monthly")
      ELSE IF Exceeded(counts, limits, "daily") THEN Reject("daily")
      ELSE IF Exceeded(counts, limits, "hourly") THEN Reject("hourly")
      ELSE [kind |-> "decision", allowed |-> TRUE, statusCode |-> 200,
            remaining |-> remaining, exceededLimit |-> Undefined,
            limits |-> limits, entries |-> <<>>]

checkLimits(counts, limits) ==
  LET remaining == calculateRemaining(counts, limits)
      Reject(p) ==
        [kind |-> "decision", allowed |-> FALSE, statusCode |-> 429,
         remaining |-> remaining, exceededLimit |-> Some(p),
         limits |-> limits, entries |-> <<>>]
  IN  IF Exceeded(counts, limits, "hourly") THEN Reject("hourly")
      ELSE IF Exceeded(counts, limits, "daily") THEN Reject("daily")
      ELSE IF Exceeded(counts, limits, "monthly") THEN Reject("monthly")
      ELSE [kind |-> "decision", allowed |-> TRUE, statusCode |-> 200,
            remaining |-> remaining, exceededLimit |-> Undefined,
            limits |-> limits, entries |-> <<>>]

\* mutant of IncrementTargets: every period's counter is incremented
IncrementTargetsAll(limits) == PeriodTypes

\* incrementCounters: the periods whose counter is incremented
IncrementTargets(limits) == {p \in PeriodTypes : IsDefined(limits[p])}

\* mutant of Dispatch: no early return, the counters are incremented on reject too
DispatchOnReject(checkResult, limits) == IncrementTargets(limits)

\* checkAndIncrement after the check: the periods to increment, none on reject
Dispatch(checkResult, limits) ==
  IF ~checkResult.allowed THEN {} ELSE IncrementTargets(limits)

\* mutant of AdmitResult: remaining is computed from the counts as read
AdmitResultStale(counts, limits) ==
  [kind |-> "decision", allowed |-> TRUE, statusCode |-> 200,
   remaining |-> calculateRemaining(counts, limits),
   exceededLimit |-> Undefined, limits |-> limits, entries |-> <<>>]

\* checkAndIncrement's result on admit: remaining after the increment
AdmitResult(counts, limits) ==
  [kind |-> "decision", allowed |-> TRUE, statusCode |-> 200,
   remaining |->
     calculateRemaining(
       [p \in PeriodTypes |->
          counts[p] + (IF IsDefined(limits[p]) THEN 1 ELSE 0)],
       limits),
   exceededLimit |-> Undefined, limits |-> limits, entries |-> <<>>]

ErrorResult == [NoResult EXCEPT !.kind = "error"]

\* getHistory's default for its limit parameter
DefaultHistoryLimit == 100

\* mutant of getPeriodEnd: every period is taken to last an hour
getPeriodEndHourly(periodType, periodStart, subscriptionStartedAt) ==
  getNextHourStart(periodStart)

\* getPeriodEnd: the end of a history entry's period
getPeriodEnd(periodType, periodStart, subscriptionStartedAt) ==
  CASE periodType = "hourly" -> getNextHourStart(periodStart)
    [] periodType = "daily" -> getNextDayStart(periodStart)
    [] periodType = "monthly" ->
         getNextSubscriptionMonthStart(subscriptionStartedAt, periodStart)

\* .orderBy(desc(period_start)): the rows, latest period_start first
RECURSIVE OrderByDesc(_)
OrderByDesc(rows) ==
  IF rows = {} THEN <<>>
  ELSE LET first == CHOOSE r \in rows :
                      \A q \in rows : NotAfter(q.period_start, r.period_start)
       IN  <<first>> \o OrderByDesc(rows \ {first})

\* mutant of Take: no limit
TakeAll(seq, n) == seq

\* .limit(n)
Take(seq, n) == SubSeq(seq, 1, Min(n, Len(seq)))

\* getHistory: the select and the mapping of its rows to entries
HistoryEntries(tbl, userId, periodType, subscriptionStartedAt, limit) ==
  LET rows == Take(OrderByDesc({r \in tbl : /\ r.user_id = userId
                                            /\ r.period_type = periodType}),
                   limit)
  IN  [i \in 1..Len(rows) |->
         [period_start |-> rows[i].period_start,
          period_end |-> getPeriodEnd(periodType, rows[i].period_start,
                                      subscriptionStartedAt),
          request_count |-> rows[i].request_count]]

\* ------------------------------------------------------------------------
\* EntitlementHelper
\* ------------------------------------------------------------------------

\* the names every plain object inherits from Object.prototype
ObjectPrototypeKeys ==
  {"constructor", "toString", "toLocaleString", "valueOf", "hasOwnProperty",
   "isPrototypeOf", "propertyIsEnumerable", "__proto__"}

\* this.config[ent] ?? this.config[NONE_ENTITLEMENT]: the config is a plain
\* object, so an inherited name reads as a member of Object.prototype, which
\* is not nullish and whose hourly, daily and monthly are undefined
ConfigLimits(config, ent) ==
  IF ent \in DOMAIN config THEN config[ent]
  ELSE IF ent \in ObjectPrototypeKeys THEN NoLimits
  ELSE config["none"]

RECURSIVE MaxOf(_)
MaxOf(values) ==
  IF Len(values) = 1 THEN Val(values[1])
  ELSE Max(Val(values[1]), MaxOf(Tail(values)))

\* mutant of maxLimit: undefined values are skipped instead of winning
maxLimitDefinedOnly(values) ==
  LET defined == SelectSeq(values, IsDefined)
  IN  IF Len(defined) = 0 THEN Undefined ELSE Some(MaxOf(defined))

\* maxLimit: undefined (unlimited) wins, else Math.max of the values
maxLimit(values) ==
  IF \E i \in 1..Len(values) : ~IsDefined(values[i])
  THEN Undefined
  ELSE Some(MaxOf(values))

computeUpperBound(config, entitlements) ==
  LET limits == [i \in 1..Len(entitlements) |->
                   ConfigLimits(config, entitlements[i])]
  IN  [p \in PeriodTypes |->
         maxLimit([i \in 1..Len(limits) |-> limits[i][p]])]

\* getRateLimits of an array of entitlement names
getRateLimits(config, entitlements) ==
  IF Len(entitlements) = 0 THEN config["none"]
  ELSE IF Len(entitlements) = 1 THEN ConfigLimits(config, entitlements[1])
  ELSE computeUpperBound(config, entitlements)

\* ------------------------------------------------------------------------
\* middleware/hono: what the middleware makes of the checker's result
\* ------------------------------------------------------------------------

DigitChars == <<"0", "1", "2", "3", "4", "5", "6", "7", "8", "9">>

RECURSIVE Digits(_)
Digits(n) ==
  IF n < 10 THEN <<DigitChars[n + 1]>>
  ELSE Digits(n \div 10) \o <<DigitChars[(n % 10) + 1]>>

\* Number.prototype.toString() of an integer: its decimal digits, as a
\* sequence of characters
toString(n) == IF n < 0 THEN <<"-">> \o Digits(0 - n) ELSE Digits(n)

HeaderName(p) ==
  CASE p = "hourly" -> "X-RateLimit-Hourly-Remaining"
    [] p = "daily" -> "X-RateLimit-Daily-Remaining"
    [] p = "monthly" -> "X-RateLimit-Monthly-Remaining"

\* mutant of RateLimitHeaders: a header is set when remaining is truthy
RateLimitHeadersTruthy(remaining) ==
  {[name |-> HeaderName(p), value |-> toString(Val(remaining[p]))] :
     p \in {q \in PeriodTypes : IsDefined(remaining[q]) /\ remaining[q] # Some(0)}}

\* the headers set from result.remaining: if (remaining.x !== undefined)
\* c.header(name, remaining.x.toString())
RateLimitHeaders(remaining) ==
  {[name |-> HeaderName(p), value |-> toString(Val(remaining[p]))] :
     p \in {q \in PeriodTypes : IsDefined(remaining[q])}}

\* mutant of MiddlewareResponse: the downstream handler runs after the 429
MiddlewareResponseThenNext(result) ==
  IF result.kind = "error"
  THEN [NoResponse EXCEPT !.status = 500]
  ELSE [status |-> IF result.allowed THEN 0 ELSE 429,
        headers |-> RateLimitHeaders(result.remaining),
        next |-> 1,
        body |-> IF result.allowed THEN NoResponse.body
                 ELSE [remaining |-> result.remaining,
                       exceededLimit |-> result.exceededLimit]]

\* the middleware after checkAndIncrement: an error of the checker leaves the
\* middleware as it is (no header, no downstream handler); else the headers,
\* then the 429 response or the downstream handler
MiddlewareResponse(result) ==
  IF result.kind = "error"
  THEN [NoResponse EXCEPT !.status = 500]
  ELSE IF ~result.allowed
  THEN [status |-> 429, headers |-> RateLimitHeaders(result.remaining),
        next |-> 0,
        body |-> [remaining |-> result.remaining,
                  exceededLimit |-> result.exceededLimit]]
  ELSE [NoResponse EXCEPT !.headers = RateLimitHeaders(result.remaining),
                          !.next = 1]

\* ------------------------------------------------------------------------
\* RateLimitChecker: the calls, one action per suspension point
\* ------------------------------------------------------------------------

\* checkAndIncrement / checkOnly up to the first await: now = new Date() reads
\* the wall clock, which has not gone back since it was last read, and
\* getCurrentCounts issues its three reads
StartCheck(c, op, userId, limits, subscriptionStartedAt, t) ==
  /\ FreeSlot(c)
  /\ t >= clock
  /\ clock' = t
  /\ started' = started + 1
  /\ calls' = [calls EXCEPT ![c] =
       [IdleCall EXCEPT !.pc = "getCurrentCounts", !.op = op,
                        !.userId = userId, !.limits = limits,
                        !.subscriptionStartedAt = subscriptionStartedAt,
                        !.tick = t, !.now = ClockAt(t),
                        !.pending = PeriodTypes]]
  /\ UNCHANGED <<table, admitted, session, eval>>

\* getCountForPeriod: one of the three parallel reads completes
getCountForPeriod(c, p) ==
  LET call == calls[c]
      rows == RowsFor(table, call.userId, p,
                      PeriodStart(p, call.subscriptionStartedAt, call.now))
  IN  /\ call.pc = "getCurrentCounts"
      /\ p \in call.pending
      /\ \E n \in (IF rows = {} THEN {0} ELSE {r.request_count : r \in rows}) :
           calls' = [calls EXCEPT ![c].pending = @ \ {p}, ![c].counts[p] = n]
      /\ UNCHANGED <<table, clock, started, admitted, session, eval>>

\* the result of checkAndIncrement once its increments are over
checkAndIncrementResult(call) ==
  LET checkResult == checkLimits(call.counts, call.limits)
  IN  IF call.threw THEN ErrorResult
      ELSE IF ~checkResult.allowed THEN checkResult
      ELSE AdmitResult(call.counts, call.limits)

\* a call returns: its result, and the history of admitted calls
Return(c, result) ==
  /\ calls' = [calls EXCEPT ![c].pc = "done", ![c].result = result,
                            ![c].inc = NoInc,
                            ![c].response =
                               IF calls[c].via = "middleware"
                               THEN MiddlewareResponse(result)
                               ELSE NoResponse]
  /\ admitted' =
       IF calls[c].op = "checkAndIncrement" /\ result.kind = "decision"
          /\ result.allowed
       THEN [admitted EXCEPT ![calls[c].userId][calls[c].tick] = @ + 1]
       ELSE admitted

\* mutant of OpIncrements: checkOnly goes on to incrementCounters as well
OpIncrementsAlways(op) == op \in {"checkAndIncrement", "checkOnly"}

\* of the two operations only checkAndIncrement calls incrementCounters;
\* checkOnly returns after its reads
OpIncrements(op) == op = "checkAndIncrement"

\* checkAndIncrement after getCurrentCounts: checkLimits, the early return on
\* reject, and incrementCounters up to its awaits (one select per period)
checkAndDispatch(c) ==
  LET call == calls[c]
      checkResult == checkLimits(call.counts, call.limits)
      targets == Dispatch(checkResult, call.limits)
  IN  /\ call.pc = "getCurrentCounts"
      /\ OpIncrements(call.op)
      /\ call.pending = {}
      /\ IF targets = {}
         THEN Return(c, checkAndIncrementResult(call))
         ELSE /\ calls' = [calls EXCEPT ![c].pc = "incrementCounters",
                   ![c].inc = [p \in PeriodTypes |->
                                 IF p \in targets
                                 THEN [st |-> "select", existing |-> <<>>]
                                 ELSE [st |-> "skip", existing |-> <<>>]]]
              /\ admitted' = admitted
      /\ UNCHANGED <<table, clock, started, session, eval>>

\* incrementPeriodCounter, first await: the select of the existing counter
incrementSelect(c, p) ==
  LET call == calls[c]
      rows == RowsFor(table, call.userId, p,
                      PeriodStart(p, call.subscriptionStartedAt, call.now))
  IN  /\ call.pc = "incrementCounters"
      /\ call.inc[p].st = "select"
      /\ \E e \in (IF rows = {} THEN {<<>>} ELSE {<<r>> : r \in rows}) :
           calls' = [calls EXCEPT ![c].inc[p] = [st |-> "write", existing |-> e]]
      /\ UNCHANGED <<table, clock, started, admitted, session, eval>>

\* mutant of UpdateRow: the update matches the rows by user and period type
\* instead of by id
UpdateRowByType(tbl, counter, now) ==
  {IF r.user_id = counter.user_id /\ r.period_type = counter.period_type
   THEN [r EXCEPT !.request_count = counter.request_count + 1,
                  !.updated_at = Some(now)]
   ELSE r : r \in tbl}

\* mutant of UpdateRow: the store adds one to the count the row holds
UpdateRowAtomic(tbl, counter, now) ==
  {IF r.id = counter.id
   THEN [r EXCEPT !.request_count = r.request_count + 1,
                  !.updated_at = Some(now)]
   ELSE r : r \in tbl}

\* .set({ request_count: counter.request_count + 1, updated_at: now })
\* .where(eq(id, counter.id))
UpdateRow(tbl, counter, now) ==
  {IF r.id = counter.id
   THEN [r EXCEPT !.request_count = counter.request_count + 1,
                  !.updated_at = Some(now)]
   ELSE r : r \in tbl}

\* mutant of InsertRow: request_count is left to the column's default of 0
InsertRowDefaultCount(tbl, userId, periodType, periodStart, now) ==
  tbl \cup {[id |-> FreshId(tbl), user_id |-> userId,
             period_type |-> periodType, period_start |-> periodStart,
             request_count |-> 0,
             created_at |-> Some(now), updated_at |-> Some(now)]}

\* .insert(table).values({ ..., request_count: 1, created_at: now, updated_at: now })
InsertRow(tbl, userId, periodType, periodStart, now) ==
  tbl \cup {[id |-> FreshId(tbl), user_id |-> userId,
             period_type |-> periodType, period_start |-> periodStart,
             request_count |-> 1,
             created_at |-> Some(now), updated_at |-> Some(now)]}

\* incrementPeriodCounter, second await: the update of the row that was read,
\* or the insert of a new row, which the unique index may refuse (the insert
\* then throws and checkAndIncrement fails; Promise.all does not cancel the
\* other periods' increments)
incrementWrite(c, p) ==
  LET call == calls[c]
      periodStart == PeriodStart(p, call.subscriptionStartedAt, call.now)
  IN  /\ call.pc = "incrementCounters"
      /\ call.inc[p].st = "write"
      /\ IF IsDefined(call.inc[p].existing)
         THEN /\ table' = UpdateRow(table, Val(call.inc[p].existing), call.now)
              /\ calls' = [calls EXCEPT ![c].inc[p].st = "done",
                                        ![c].written = @ \cup {p}]
         ELSE IF UniqueIndexAllows(table, call.userId, p, periodStart)
         THEN /\ table' = InsertRow(table, call.userId, p, periodStart, call.now)
              /\ calls' = [calls EXCEPT ![c].inc[p].st = "done",
                                        ![c].written = @ \cup {p}]
         ELSE /\ table' = table
              /\ calls' = [calls EXCEPT ![c].inc[p].st = "done",
                                        ![c].threw = TRUE]
      /\ UNCHANGED <<clock, started, admitted, session, eval>>

\* checkAndIncrement after incrementCounters: the result, or the error
incrementReturn(c) ==
  LET call == calls[c]
  IN  /\ call.pc = "incrementCounters"
      /\ \A p \in PeriodTypes : call.inc[p].st \in {"skip", "done"}
      /\ Return(c, checkAndIncrementResult(call))
      /\ UNCHANGED <<table, clock, started, session, eval>>

\* checkOnly after getCurrentCounts: { ...checkResult, remaining, limits }
checkOnlyReturn(c) ==
  LET call == calls[c]
  IN  /\ call.pc = "getCurrentCounts"
      /\ call.op = "checkOnly"
      /\ ~OpIncrements(call.op)
      /\ call.pending = {}
      /\ Return(c, [checkLimits(call.counts, call.limits) EXCEPT
                      !.remaining = calculateRemaining(call.counts, call.limits),
                      !.limits = call.limits])
      /\ UNCHANGED <<table, clock, started, session, eval>>

\* getHistory up to its await: the select is issued
StartGetHistory(c, userId, periodType, subscriptionStartedAt, limit) ==
  /\ FreeSlot(c)
  /\ started' = started + 1
  /\ calls' = [calls EXCEPT ![c] =
       [IdleCall EXCEPT !.pc = "getHistory", !.op = "getHistory",
                        !.userId = userId, !.periodType = periodType,
                        !.subscriptionStartedAt = subscriptionStartedAt,
                        !.limit = limit]]
  /\ UNCHANGED <<table, clock, admitted, session, eval>>

\* getHistory after its select: the entries
getHistoryReturn(c) ==
  LET call == calls[c]
  IN  /\ call.pc = "getHistory"
      /\ Return(c, [NoResult EXCEPT
                      !.kind = "history",
                      !.entries = HistoryEntries(table, call.userId,
                                    call.periodType,
                                    call.subscriptionStartedAt, call.limit)])
      /\ UNCHANGED <<table, clock, started, session, eval>>

\* what a request that is not skipped calls before the checker:
\* config.getUserId(c) and rcHelper.getSubscriptionInfo(userId)
MiddlewareEffects == {"getUserId", "getSubscriptionInfo"}

\* mutant of SkipResponse: the headers of an untouched budget are set
SkipResponseWithHeaders ==
  [NoResponse EXCEPT !.next = 1,
                     !.headers = RateLimitHeaders(
                                   [hourly |-> Some(1), daily |-> Undefined,
                                    monthly |-> Undefined])]

\* shouldSkip answered true: await next(); return
SkipResponse == [NoResponse EXCEPT !.next = 1]

\* mutant of FallbackEntitlements: the best plan stands in for a failed lookup
FallbackEntitlementsPro == <<"pro">>

\* the catch block of the lookup: entitlements = [NONE_ENTITLEMENT]
FallbackEntitlements == <<"none">>

\* a request enters the middleware. With shouldSkip true the downstream
\* handler runs and nothing else is done. Else the user id is taken, the
\* provider is asked for the subscription, "none" standing in when the lookup
\* throws, the limits are resolved and checkAndIncrement begins.
StartMiddleware(c, config, userId, skip, lookup, t) ==
  LET entitlements == IF lookup.threw THEN FallbackEntitlements
                      ELSE lookup.entitlements
      subscriptionStartedAt ==
        IF lookup.threw THEN Null ELSE lookup.subscriptionStartedAt
      limits == getRateLimits(config, entitlements)
  IN  /\ FreeSlot(c)
      /\ started' = started + 1
      /\ IF skip
         THEN /\ calls' = [calls EXCEPT ![c] =
                   [IdleCall EXCEPT !.pc = "done", !.op = "middleware",
                                    !.via = "middleware",
                                    !.response = SkipResponse]]
              /\ clock' = clock
         ELSE /\ t >= clock
              /\ clock' = t
              /\ calls' = [calls EXCEPT ![c] =
                   [IdleCall EXCEPT !.pc = "getCurrentCounts",
                                    !.op = "checkAndIncrement",
                                    !.via = "middleware",
                                    !.effects = MiddlewareEffects,
                                    !.userId = userId, !.limits = limits,
                                    !.subscriptionStartedAt = subscriptionStartedAt,
                                    !.tick = t, !.now = ClockAt(t),
                                    !.pending = PeriodTypes]]
      /\ UNCHANGED <<table, admitted, session, eval>>

\* incrementPeriodCounter performed from its select to its write with no other
\* statement in between
incrementPeriodCounter(tbl, userId, periodType, periodStart, now) ==
  LET existing == RowsFor(tbl, userId, periodType, periodStart)
  IN  IF existing # {}
      THEN UpdateRow(tbl, CHOOSE r \in existing : TRUE, now)
      ELSE InsertRow(tbl, userId, periodType, periodStart, now)

\* the request_count stored for a key, 0 without a row
CountOf(tbl, userId, periodType, periodStart) ==
  LET rows == RowsFor(tbl, userId, periodType, periodStart)
  IN  IF rows = {} THEN 0 ELSE (CHOOSE r \in rows : TRUE).request_count

\* the increment of one counter on behalf of a request
performIncrement(userId, periodType, t) ==
  LET now == ClockAt(t)
      periodStart == PeriodStart(periodType, Null, now)
      after == incrementPeriodCounter(table, userId, periodType, periodStart, now)
  IN  /\ t >= clock
      /\ clock' = t
      /\ started' = started + 1
      /\ table' = after
      /\ eval' = [fn |-> "incrementPeriodCounter", userId |-> userId,
                  periodType |-> periodType, periodStart |-> periodStart,
                  now |-> now, retried |-> FALSE,
                  before |-> CountOf(table, userId, periodType, periodStart),
                  once |-> CountOf(after, userId, periodType, periodStart),
                  twice |-> CountOf(after, userId, periodType, periodStart)]
      /\ UNCHANGED <<calls, admitted, session>>

\* the same increment performed again on behalf of the same request
retryIncrement ==
  LET after == incrementPeriodCounter(table, eval.userId, eval.periodType,
                                      eval.periodStart, eval.now)
  IN  /\ eval.fn = "incrementPeriodCounter"
      /\ ~eval.retried
      /\ started' = started + 1
      /\ table' = after
      /\ eval' = [eval EXCEPT !.retried = TRUE,
                              !.twice = CountOf(after, eval.userId,
                                          eval.periodType, eval.periodStart)]
      /\ UNCHANGED <<clock, calls, admitted, session>>

\* the request around a call is cancelled and the call abandoned where it
\* stands: what it has not yet done is never done
abandon(c) ==
  /\ InFlight(c)
  /\ calls' = [calls EXCEPT ![c].pc = "done", ![c].inc = NoInc,
                            ![c].result = [NoResult EXCEPT !.kind = "abandoned"]]
  /\ UNCHANGED <<table, clock, started, admitted, session, eval>>

\* a read of getCurrentCounts is rejected by the store: its Promise.all
\* rejects, nothing catches it, and the call throws before any write
readFails(c, p) ==
  LET call == calls[c]
  IN  /\ call.pc = "getCurrentCounts"
      /\ p \in call.pending
      /\ Return(c, ErrorResult)
      /\ UNCHANGED <<table, clock, started, session, eval>>

\* the select or the write of one incrementPeriodCounter is rejected by the
\* store: that increment throws and the call will throw; the increments of
\* the other periods, started together with it, are not cancelled
incrementFails(c, p) ==
  LET call == calls[c]
  IN  /\ call.pc = "incrementCounters"
      /\ call.inc[p].st \in {"select", "write"}
      /\ calls' = [calls EXCEPT ![c].inc[p].st = "done", ![c].threw = TRUE]
      /\ UNCHANGED <<table, clock, started, admitted, session, eval>>

\* the steps of the calls of checkAndIncrement
IncrementStep ==
  \/ \E c \in CallIds, p \in PeriodTypes : getCountForPeriod(c, p)
  \/ \E c \in CallIds : checkAndDispatch(c)
  \/ \E c \in CallIds, p \in PeriodTypes : incrementSelect(c, p)
  \/ \E c \in CallIds, p \in PeriodTypes : incrementWrite(c, p)
  \/ \E c \in CallIds : incrementReturn(c)

\* the steps of all the calls of the checker
Step ==
  \/ IncrementStep
  \/ \E c \in CallIds : checkOnlyReturn(c)
  \/ \E c \in CallIds : getHistoryReturn(c)

NoSession == [limits |-> NoLimits, subscriptionStartedAt |-> Null]

InitWith(sessions) ==
  /\ table = {}
  /\ clock = 0
  /\ calls = [c \in CallIds |-> IdleCall]
  /\ started = 0
  /\ admitted = [u \in Users |-> [t \in Ticks |-> 0]]
  /\ session \in sessions
  /\ eval = NoEval

\* ------------------------------------------------------------------------
\* Spec: concurrent calls of one user, limits differing from call to call
\* ------------------------------------------------------------------------

SpecLimits ==
  { Limits(Some(1), Undefined, Some(2)),
    Limits(Undefined, Some(1), Undefined),
    Limits(Undefined, Undefined, Undefined) }

SpecAnchor == Some(At(2024, 12, 31, 10, 15, 0, 0))

Init == InitWith({NoSession})

Start ==
  \E c \in CallIds, op \in {"checkAndIncrement", "checkOnly"},
     limits \in SpecLimits, t \in 0..MaxTick :
       /\ started < MaxCalls
       /\ StartCheck(c, op, "u1", limits, SpecAnchor, t)

StartHistory ==
  \E c \in CallIds, periodType \in PeriodTypes :
       /\ started < MaxCalls
       /\ StartGetHistory(c, "u1", periodType, SpecAnchor, DefaultHistoryLimit)

Next == Start \/ StartHistory \/ Step

Spec == Init /\ [][Next]_vars

\* ------------------------------------------------------------------------
\* SpecSeq: the calls of one user one after another, none overlapping, all
\* with the same limits and the same anchor
\* ------------------------------------------------------------------------

InitSeq ==
  InitWith([limits : AllLimits, subscriptionStartedAt : Anchors])

StartSeq ==
  \E c \in CallIds, op \in {"checkAndIncrement", "checkOnly"}, t \in 0..SeqTick :
       /\ started < SeqCalls
       /\ NumInFlight = 0
       /\ StartCheck(c, op, "u1", session.limits, session.subscriptionStartedAt, t)

StartHistorySeq ==
  \E c \in CallIds, periodType \in PeriodTypes, limit \in {1, DefaultHistoryLimit} :
       /\ started < SeqCalls
       /\ NumInFlight = 0
       /\ StartGetHistory(c, "u1", periodType, session.subscriptionStartedAt, limit)

NextSeq == StartSeq \/ StartHistorySeq \/ Step

SpecSeq == InitSeq /\ [][NextSeq]_vars

\* ------------------------------------------------------------------------
\* SpecRace: concurrent checkAndIncrement calls of one user within one hour,
\* all with the same hourly limit
\* ------------------------------------------------------------------------

InitRace ==
  InitWith({[limits |-> Limits(Some(RaceLimit), Undefined, Undefined),
             subscriptionStartedAt |-> Null]})

StartRace ==
  \E c \in CallIds :
       /\ started < RaceCalls
       /\ StartCheck(c, "checkAndIncrement", "u1", session.limits,
                     session.subscriptionStartedAt, 0)

NextRace == StartRace \/ IncrementStep

SpecRace == InitRace /\ [][NextRace]_vars

\* ------------------------------------------------------------------------
\* SpecLate: concurrent calls of one user with an hourly limit, some of them
\* beginning after the hour has changed while an earlier call is in flight
\* ------------------------------------------------------------------------

LateLimits == Limits(Some(2), Undefined, Undefined)

InitLate ==
  InitWith({[limits |-> LateLimits, subscriptionStartedAt |-> Null]})

StartLate ==
  \E c \in CallIds, op \in {"checkAndIncrement", "checkOnly"}, t \in 0..LateTick :
       /\ started < LateCalls
       /\ StartCheck(c, op, "u1", session.limits, session.subscriptionStartedAt, t)

StartHistoryLate ==
  \E c \in CallIds :
       /\ started < LateCalls
       /\ StartGetHistory(c, "u1", "hourly", session.subscriptionStartedAt,
                          DefaultHistoryLimit)

NextLate == StartLate \/ StartHistoryLate \/ Step

SpecLate == InitLate /\ [][NextLate]_vars

\* ------------------------------------------------------------------------
\* SpecMw: concurrent requests of one user through the middleware, the
\* provider answering differently from request to request, and status
\* queries (checkOnly) beside them
\* ------------------------------------------------------------------------

MwConfig ==
  [none |-> Limits(Some(1), Undefined, Some(2)),
   pro |-> Limits(Undefined, Undefined, Undefined)]

\* what rcHelper.getSubscriptionInfo comes back with
MwLookups ==
  { [threw |-> TRUE, entitlements |-> <<>>, subscriptionStartedAt |-> Null],
    [threw |-> FALSE, entitlements |-> <<"none">>, subscriptionStartedAt |-> Null],
    [threw |-> FALSE, entitlements |-> <<"none", "pro">>,
     subscriptionStartedAt |-> SpecAnchor] }

InitMw == InitWith({NoSession})

StartMw ==
  \E c \in CallIds, lookup \in MwLookups, t \in 0..MwTick :
       /\ started < MwCalls
       /\ StartMiddleware(c, MwConfig, "u1", FALSE, lookup, t)

StartMwSkip ==
  \E c \in CallIds :
       /\ started < MwCalls
       /\ StartMiddleware(c, MwConfig, "u1", TRUE,
                          CHOOSE lookup \in MwLookups : lookup.threw, 0)

StartMwCheckOnly ==
  \E c \in CallIds, ent \in DOMAIN MwConfig, t \in 0..MwTick :
       /\ started < MwCalls
       /\ StartCheck(c, "checkOnly", "u1", MwConfig[ent], Null, t)

NextMw == StartMw \/ StartMwSkip \/ StartMwCheckOnly \/ IncrementStep
            \/ \E c \in CallIds : checkOnlyReturn(c)

SpecMw == InitMw /\ [][NextMw]_vars

\* ------------------------------------------------------------------------
\* SpecRoll: checkAndIncrement calls of one user one after another while the
\* clock moves over the hour and the day, with limits some of which run out
\* ------------------------------------------------------------------------

RollLimits ==
  { Limits(Some(1), Some(2), Undefined),
    Limits(Some(1), Some(1), Some(3)),
    Limits(Some(2), Undefined, Some(2)) }

InitRoll == InitWith([limits : RollLimits, subscriptionStartedAt : Anchors])

StartRoll ==
  \E c \in CallIds, t \in 0..RollTick :
       /\ started < RollCalls
       /\ NumInFlight = 0
       /\ StartCheck(c, "checkAndIncrement", "u1", session.limits,
                     session.subscriptionStartedAt, t)

NextRoll == StartRoll \/ IncrementStep

SpecRoll == InitRoll /\ [][NextRoll]_vars

\* ------------------------------------------------------------------------
\* SpecFault: checkAndIncrement calls of one user against a store that may
\* reject any read or write
\* ------------------------------------------------------------------------

FaultLimits == Limits(Some(2), Undefined, Some(2))

InitFault ==
  InitWith({[limits |-> FaultLimits, subscriptionStartedAt |-> Null]})

StartFault ==
  \E c \in CallIds :
       /\ started < FaultCalls
       /\ StartCheck(c, "checkAndIncrement", "u1", session.limits,
                     session.subscriptionStartedAt, 0)

StoreFails ==
  \/ \E c \in CallIds, p \in PeriodTypes : readFails(c, p)
  \/ \E c \in CallIds, p \in PeriodTypes : incrementFails(c, p)

NextFault == StartFault \/ IncrementStep \/ StoreFails

SpecFault == InitFault /\ [][NextFault]_vars

\* ------------------------------------------------------------------------
\* SpecRetry: counters incremented one at a time, an increment now and then
\* performed a second time for the same request
\* ------------------------------------------------------------------------

InitRetry == InitWith({NoSession})

Increment ==
  \E userId \in Users, periodType \in PeriodTypes, t \in 0..RetryTick :
       /\ started < RetryOps
       /\ performIncrement(userId, periodType, t)

Retry == started < RetryOps /\ retryIncrement

NextRetry == Increment \/ Retry

SpecRetry == InitRetry /\ [][NextRetry]_vars

\* ------------------------------------------------------------------------
\* SpecUsers: calls of two users side by side, each user with limits of its
\* own, some calls abandoned on the way
\* ------------------------------------------------------------------------

UserLimits ==
  [u1 |-> Limits(Some(1), Undefined, Some(2)),
   u2 |-> Limits(Some(2), Undefined, Undefined)]

InitUsers == InitWith({NoSession})

StartUsers ==
  \E c \in CallIds, userId \in Users, op \in {"checkAndIncrement", "checkOnly"} :
       /\ started < UsersCalls
       /\ StartCheck(c, op, userId, UserLimits[userId], Null, 0)

StartHistoryUsers ==
  \E c \in CallIds, userId \in Users :
       /\ started < UsersCalls
       /\ StartGetHistory(c, userId, "hourly", Null, DefaultHistoryLimit)

Abandon == \E c \in CallIds : abandon(c)

NextUsers == StartUsers \/ StartHistoryUsers \/ Step \/ Abandon

SpecUsers == InitUsers /\ [][NextUsers]_vars

\* ------------------------------------------------------------------------
\* SpecEnt: EntitlementHelper.getRateLimits applied to lists of entitlement
\* names, known to the config or not
\* ------------------------------------------------------------------------

EntConfig ==
  [none |-> Limits(Some(1), Some(2), Some(4)),
   starter |-> Limits(Some(2), Some(1), Some(4)),
   pro |-> Limits(Some(3), Undefined, Undefined)]

EntNames == {"none", "starter", "pro", "unknown", "constructor"}

EntLists == UNION {[1..n -> EntNames] : n \in 0..MaxEntLen}

InitEnt ==
  /\ table = {}
  /\ clock = 0
  /\ calls = [c \in CallIds |-> IdleCall]
  /\ started = 0
  /\ admitted = [u \in Users |-> [t \in Ticks |-> 0]]
  /\ session = NoSession
  /\ eval \in {[fn |-> "none", entitlements |-> S, limits |-> NoLimits] :
                 S \in EntLists}

resolveRateLimits ==
  /\ eval.fn = "none"
  /\ eval' = [eval EXCEPT !.fn = "getRateLimits",
                          !.limits = getRateLimits(EntConfig, eval.entitlements)]
  /\ UNCHANGED <<table, clock, calls, started, admitted, session>>

NextEnt == resolveRateLimits

SpecEnt == InitEnt /\ [][NextEnt]_vars

\* ------------------------------------------------------------------------
\* SpecTime: the period calculator applied to instants around the ends of
\* hours, days, months and years, and again to its own results
\* ------------------------------------------------------------------------

TimeOfDay ==
  { [h |-> 0, mi |-> 0, s |-> 0, ms |-> 0], [h |-> 0, mi |-> 0, s |-> 0, ms |-> 1],
    [h |-> 10, mi |-> 15, s |-> 30, ms |-> 500],
    [h |-> 22, mi |-> 59, s |-> 59, ms |-> 999],
    [h |-> 23, mi |-> 0, s |-> 0, ms |-> 0],
    [h |-> 23, mi |-> 59, s |-> 59, ms |-> 999] }

TimeNows ==
  { At(y, mo, d, t.h, t.mi, t.s, t.ms) :
      y \in 2024..(2024 + TimeYears - 1), mo \in {1, 2, 3, 4, 12},
      d \in {1, 15, 28}, t \in TimeOfDay }
  \cup
  { At(y, mo, LastDayOfMonth(y, mo - 1), t.h, t.mi, t.s, t.ms) :
      y \in 2024..(2024 + TimeYears - 1), mo \in {1, 2, 3, 4, 12},
      t \in TimeOfDay }

TimeAnchors ==
  { Null, Some(At(2024, 1, 31, 10, 15, 0, 0)), Some(At(2024, 2, 29, 0, 0, 0, 0)),
    Some(At(2023, 11, 30, 23, 59, 59, 999)), Some(At(2024, 3, 15, 8, 0, 0, 0)) }

InitTime ==
  /\ table = {}
  /\ clock = 0
  /\ calls = [c \in CallIds |-> IdleCall]
  /\ started = 0
  /\ admitted = [u \in Users |-> [t \in Ticks |-> 0]]
  /\ session = NoSession
  /\ eval \in {[fn |-> "input", prev |-> "input", anchor |-> a, arg |-> n,
                 out |-> n, steps |-> 0] : n \in TimeNows, a \in TimeAnchors}

\* a function of the period calculator applied to the instant last obtained
applyTime(fn, out) ==
  /\ eval.steps < TimeSteps
  /\ eval' = [fn |-> fn, prev |-> eval.fn, anchor |-> eval.anchor,
              arg |-> eval.out, out |-> out, steps |-> eval.steps + 1]
  /\ UNCHANGED <<table, clock, calls, started, admitted, session>>

applyCurrentHourStart ==
  applyTime("getCurrentHourStart", getCurrentHourStart(eval.out))
applyNextHourStart ==
  applyTime("getNextHourStart", getNextHourStart(eval.out))
applyCurrentDayStart ==
  applyTime("getCurrentDayStart", getCurrentDayStart(eval.out))
applyNextDayStart ==
  applyTime("getNextDayStart", getNextDayStart(eval.out))
applySubscriptionMonthStart ==
  applyTime("getSubscriptionMonthStart",
            getSubscriptionMonthStart(eval.anchor, eval.out))
applyNextSubscriptionMonthStart ==
  applyTime("getNextSubscriptionMonthStart",
            getNextSubscriptionMonthStart(eval.anchor, eval.out))

NextTime ==
  \/ applyCurrentHourStart
  \/ applyNextHourStart
  \/ applyCurrentDayStart
  \/ applyNextDayStart
  \/ applySubscriptionMonthStart
  \/ applyNextSubscriptionMonthStart

SpecTime == InitTime /\ [][NextTime]_vars

\* ------------------------------------------------------------------------
\* helpers/SubscriptionHelper: the provider client
\* ------------------------------------------------------------------------

\* a rejected promise (the error thrown)
Thrown == [threw |-> TRUE, entitlements |-> <<>>, subscriptionStartedAt |-> Null]

\* { entitlements: [NONE_ENTITLEMENT], subscriptionStartedAt: null }
NoneSnapshot ==
  [threw |-> FALSE, entitlements |-> <<"none">>, subscriptionStartedAt |-> Null]

\* mutant of NotFound: a 404 is no special case
NotFoundNever(status) == FALSE

\* response.status === 404
NotFound(status) == status = 404

\* mutant of ResponseOk: only server errors are failures
ResponseOkBelow500(status) == status < 500

\* response.ok
ResponseOk(status) == status \in 200..299

\* mutant of isActive: the expiry is not looked at
isActiveAlways(entitlement, now) == TRUE

\* !entitlement.expires_date || new Date(entitlement.expires_date) > now
isActive(entitlement, now) ==
  \/ ~IsDefined(entitlement.expires_date)
  \/ Before(now, Val(entitlement.expires_date))

\* subscriptions[entitlement.product_identifier]?.sandbox === true
isSandbox(subscriptions, entitlement) ==
  /\ entitlement.product_identifier \in DOMAIN subscriptions
  /\ subscriptions[entitlement.product_identifier].sandbox = TRUE

\* mutant of earlierPurchaseDate: the later date is kept
laterPurchaseDate(earliestPurchaseDate, purchaseDate) ==
  IF ~IsDefined(earliestPurchaseDate)
     \/ Before(Val(earliestPurchaseDate), purchaseDate)
  THEN Some(purchaseDate)
  ELSE earliestPurchaseDate

\* if (!earliestPurchaseDate || purchaseDate < earliestPurchaseDate)
\*   earliestPurchaseDate = purchaseDate
earlierPurchaseDate(earliestPurchaseDate, purchaseDate) ==
  IF ~IsDefined(earliestPurchaseDate)
     \/ Before(purchaseDate, Val(earliestPurchaseDate))
  THEN Some(purchaseDate)
  ELSE earliestPurchaseDate

\* the loop over Object.entries(entitlements), from the entries still to
\* visit and the two accumulators
RECURSIVE activeEntitlementsOf(_, _, _, _, _)
activeEntitlementsOf(entries, subscriptions, testMode, now, acc) ==
  IF entries = <<>> THEN acc
  ELSE
    LET entitlement == Head(entries)
        next ==
          IF ~isActive(entitlement, now) THEN acc
          ELSE IF ~testMode /\ isSandbox(subscriptions, entitlement) THEN acc
          ELSE [activeEntitlements |->
                  Append(acc.activeEntitlements, entitlement.name),
                earliestPurchaseDate |->
                  earlierPurchaseDate(acc.earliestPurchaseDate,
                                      entitlement.purchase_date)]
    IN  activeEntitlementsOf(Tail(entries), subscriptions, testMode, now, next)

\* SubscriptionHelper.getSubscriptionInfo for one answer of the provider
getSubscriptionInfo(userId, testMode, response, now) ==
  IF userId = "" THEN Thrown
  ELSE IF response.kind = "rejected" THEN Thrown
  ELSE IF NotFound(response.status) THEN NoneSnapshot
  ELSE IF ~ResponseOk(response.status) THEN Thrown
  ELSE IF response.body = "malformed" THEN Thrown
  ELSE
    LET entitlements == IF response.body = "subscriber"
                        THEN response.entitlements ELSE <<>>
        subscriptions == IF response.body = "subscriber"
                         THEN response.subscriptions ELSE <<>>
        acc == activeEntitlementsOf(entitlements, subscriptions, testMode, now,
                 [activeEntitlements |-> <<>>, earliestPurchaseDate |-> Null])
    IN  IF Len(acc.activeEntitlements) = 0
        THEN NoneSnapshot
        ELSE [threw |-> FALSE, entitlements |-> acc.activeEntitlements,
              subscriptionStartedAt |-> acc.earliestPurchaseDate]

\* SubscriptionHelper.getEntitlements
getEntitlements(userId, testMode, response, now) ==
  IF userId = "" THEN [threw |-> TRUE, entitlements |-> <<>>]
  ELSE
    LET info == getSubscriptionInfo(userId, testMode, response, now)
    IN  [threw |-> info.threw, entitlements |-> info.entitlements]

\* RevenueCatHelper.getSubscriptionInfo, the lookup the middleware makes:
\* the loop over Object.entries(entitlements) looks at expires_date only
RECURSIVE revenueCatActiveEntitlementsOf(_, _, _)
revenueCatActiveEntitlementsOf(entries, now, acc) ==
  IF entries = <<>> THEN acc
  ELSE
    LET entitlement == Head(entries)
        next == IF isActive(entitlement, now)
                THEN [activeEntitlements |->
                        Append(acc.activeEntitlements, entitlement.name),
                      earliestPurchaseDate |->
                        earlierPurchaseDate(acc.earliestPurchaseDate,
                                            entitlement.purchase_date)]
                ELSE acc
    IN  revenueCatActiveEntitlementsOf(Tail(entries), now, next)

\* no test of userId, no test mode, no look at the subscriptions
revenueCatGetSubscriptionInfo(userId, response, now) ==
  IF response.kind = "rejected" THEN Thrown
  ELSE IF NotFound(response.status) THEN NoneSnapshot
  ELSE IF ~ResponseOk(response.status) THEN Thrown
  ELSE IF response.body = "malformed" THEN Thrown
  ELSE
    LET entitlements == IF response.body = "subscriber"
                        THEN response.entitlements ELSE <<>>
        acc == revenueCatActiveEntitlementsOf(entitlements, now,
                 [activeEntitlements |-> <<>>, earliestPurchaseDate |-> Null])
    IN  IF Len(acc.activeEntitlements) = 0
        THEN NoneSnapshot
        ELSE [threw |-> FALSE, entitlements |-> acc.activeEntitlements,
              subscriptionStartedAt |-> acc.earliestPurchaseDate]

\* ------------------------------------------------------------------------
\* SpecSub: getSubscriptionInfo and getEntitlements on the answers of the
\* provider: the request fails or times out, an error status, 404, and
\* subscribers with up to SubMaxEntitlements entitlements that are lifetime,
\* expired, expiring now or later, bought in production, in the sandbox or
\* with no subscription listed
\* ------------------------------------------------------------------------

SubNow == At(2025, 3, 1, 7, 30, 0, 0)

SubSubscriptions ==
  [prod |-> [sandbox |-> FALSE], sand |-> [sandbox |-> TRUE]]

SubEntitlementRecords ==
  [name : {"pro", "starter", "none"},
   expires_date : {Null, Some(At(2025, 2, 1, 0, 0, 0, 0)), Some(SubNow),
                   Some(At(2025, 3, 31, 23, 59, 59, 999))},
   product_identifier : {"prod", "sand", "gone"},
   purchase_date : {At(2024, 12, 31, 10, 15, 0, 0), At(2025, 1, 15, 8, 0, 0, 0)}]

\* Object.entries of an object: no key twice
SubEntries ==
  UNION { {e \in [1..n -> SubEntitlementRecords] :
             \A i, j \in 1..n : i # j => e[i].name # e[j].name} :
          n \in 0..SubMaxEntitlements }

SubResponses ==
  {[kind |-> "rejected", status |-> 0, body |-> "none",
    entitlements |-> <<>>, subscriptions |-> <<>>]}
  \cup
  {[kind |-> "response", status |-> st, body |-> "none",
    entitlements |-> <<>>, subscriptions |-> <<>>] :
     st \in {301, 400, 401, 404, 429, 500, 503}}
  \cup
  {[kind |-> "response", status |-> 200, body |-> b,
    entitlements |-> <<>>, subscriptions |-> <<>>] :
     b \in {"malformed", "noSubscriber"}}
  \cup
  {[kind |-> "response", status |-> 200, body |-> "subscriber",
    entitlements |-> e, subscriptions |-> SubSubscriptions] : e \in SubEntries}

InitSub ==
  /\ table = {}
  /\ clock = 0
  /\ calls = [c \in CallIds |-> IdleCall]
  /\ started = 0
  /\ admitted = [u \in Users |-> [t \in Ticks |-> 0]]
  /\ session = NoSession
  /\ eval \in {[fn |-> "input", userId |-> u, testMode |-> tm, response |-> r,
                 now |-> SubNow, out |-> Thrown] :
                 u \in {"", "u1"}, tm \in BOOLEAN, r \in SubResponses}

callGetSubscriptionInfo ==
  /\ eval.fn = "input"
  /\ eval' = [eval EXCEPT !.fn = "getSubscriptionInfo",
                !.out = getSubscriptionInfo(eval.userId, eval.testMode,
                                            eval.response, eval.now)]
  /\ UNCHANGED <<table, clock, calls, started, admitted, session>>

callGetEntitlements ==
  /\ eval.fn = "input"
  /\ eval' = [eval EXCEPT !.fn = "getEntitlements",
                !.out = getEntitlements(eval.userId, eval.testMode,
                                        eval.response, eval.now)]
  /\ UNCHANGED <<table, clock, calls, started, admitted, session>>

\* the middleware's lookup: rcHelper.getSubscriptionInfo(userId)
callRevenueCatGetSubscriptionInfo ==
  /\ eval.fn = "input"
  /\ eval' = [eval EXCEPT !.fn = "RevenueCatHelper.getSubscriptionInfo",
                !.out = revenueCatGetSubscriptionInfo(eval.userId,
                                                      eval.response, eval.now)]
  /\ UNCHANGED <<table, clock, calls, started, admitted, session>>

NextSub ==
  \/ callGetSubscriptionInfo
  \/ callGetEntitlements
  \/ callRevenueCatGetSubscriptionInfo

SpecSub == InitSub /\ [][NextSub]_vars

\* ------------------------------------------------------------------------
\* SpecFallback: two users send the same requests at the same instants
\* through the middleware; the provider lookup throws for u1 every time and
\* answers "no subscription" for u2
\* ------------------------------------------------------------------------

InitFallback == InitWith({NoSession})

\* the next request of u1 arrives once the pair before it is over
StartFallbackThrew ==
  \E t \in 0..MwTick :
       /\ started < 2 * FallbackPairs
       /\ started % 2 = 0
       /\ NumInFlight = 0
       /\ StartMiddleware(1, MwConfig, "u1", FALSE, Thrown, t)

\* the same request of u2, at the instant of u1's
StartFallbackNone ==
  /\ started % 2 = 1
  /\ calls[1].userId = "u1"
  /\ StartMiddleware(2, MwConfig, "u2", FALSE, NoneSnapshot, calls[1].tick)

NextFallback == StartFallbackThrew \/ StartFallbackNone \/ IncrementStep

SpecFallback == InitFallback /\ [][NextFallback]_vars

\* ------------------------------------------------------------------------
\* SpecWait: the provider lookup as the wait it is. The middleware asks
\* through RevenueCatHelper, whose fetch carries no signal; an application
\* asks SubscriptionHelper directly, whose fetch is aborted by a timer after
\* timeoutMs. The provider may answer, fail or stay silent.
\* ------------------------------------------------------------------------

\* a request up to `await fetch(...)` of getSubscriptionInfo: via the
\* middleware (RevenueCatHelper) or directly (SubscriptionHelper)
awaitSubscriptionInfo(c, via, userId) ==
  /\ FreeSlot(c)
  /\ started' = started + 1
  /\ calls' = [calls EXCEPT ![c] =
       [IdleCall EXCEPT !.pc = "getSubscriptionInfo",
                        !.op = "getSubscriptionInfo",
                        !.effects = IF via = "middleware"
                                    THEN MiddlewareEffects
                                    ELSE {"getSubscriptionInfo"},
                        !.via = via, !.userId = userId]]
  /\ UNCHANGED <<table, clock, admitted, session, eval>>

\* the fetch settles with what the provider sent or with a network error:
\* the middleware resolves the limits, "none" standing in for an error, and
\* begins checkAndIncrement; the direct call returns or throws
resumeSubscriptionInfo(c, config, lookup, t) ==
  LET call == calls[c]
      entitlements == IF lookup.threw THEN FallbackEntitlements
                      ELSE lookup.entitlements
      subscriptionStartedAt ==
        IF lookup.threw THEN Null ELSE lookup.subscriptionStartedAt
  IN  /\ call.pc = "getSubscriptionInfo"
      /\ IF call.via = "middleware"
         THEN /\ t >= clock
              /\ clock' = t
              /\ calls' = [calls EXCEPT ![c] =
                   [IdleCall EXCEPT !.pc = "getCurrentCounts",
                                    !.op = "checkAndIncrement",
                                    !.via = "middleware",
                                    !.effects = MiddlewareEffects,
                                    !.userId = call.userId,
                                    !.limits = getRateLimits(config, entitlements),
                                    !.subscriptionStartedAt = subscriptionStartedAt,
                                    !.tick = t, !.now = ClockAt(t),
                                    !.pending = PeriodTypes]]
              /\ admitted' = admitted
         ELSE /\ t = clock
              /\ clock' = clock
              /\ Return(c, IF lookup.threw THEN ErrorResult
                           ELSE [NoResult EXCEPT !.kind = "snapshot"])
      /\ UNCHANGED <<table, started, session, eval>>

\* setTimeout(() => controller.abort(), timeoutMs) fires: the fetch of
\* SubscriptionHelper rejects. RevenueCatHelper sets no such timer.
abortFetch(c) ==
  /\ calls[c].pc = "getSubscriptionInfo"
  /\ calls[c].via = "direct"
  /\ Return(c, ErrorResult)
  /\ UNCHANGED <<table, clock, started, session, eval>>

InitWait == InitWith({NoSession})

NextWait ==
  \/ \E c \in CallIds, via \in {"middleware", "direct"} :
       started < WaitCalls /\ awaitSubscriptionInfo(c, via, "u1")
  \/ \E c \in CallIds, lookup \in MwLookups, t \in 0..MwTick :
       resumeSubscriptionInfo(c, MwConfig, lookup, t)
  \/ \E c \in CallIds : abortFetch(c)
  \/ IncrementStep

\* what the program does by itself happens: a timer that was set fires and
\* the store answers; nothing obliges the provider to answer
SpecWait ==
  /\ InitWait /\ [][NextWait]_vars
  /\ WF_vars(\E c \in CallIds : abortFetch(c))
  /\ WF_vars(IncrementStep)

\* ------------------------------------------------------------------------
\* SpecCtor: an EntitlementHelper is constructed from a config that has the
\* key "none" or lacks it (the type asks for it, nothing at run time does),
\* then asked for the limits of a list of entitlement names
\* ------------------------------------------------------------------------

\* new EntitlementHelper(config): constructor(private readonly config) {}
EntitlementHelperNew(config) == [threw |-> FALSE, config |-> config]

\* getRateLimits on the config the helper was given: this.config["none"] is
\* undefined when the key is missing, and reading .hourly of an undefined
\* entry in computeUpperBound throws a TypeError
getRateLimitsOf(helper, entitlements) ==
  LET config == helper.config
      Known(ent) == ent \in DOMAIN config \/ ent \in ObjectPrototypeKeys
  IN  IF "none" \in DOMAIN config
      THEN [threw |-> FALSE, limits |-> Some(getRateLimits(config, entitlements))]
      ELSE IF Len(entitlements) = 0
      THEN [threw |-> FALSE, limits |-> Undefined]
      ELSE IF Len(entitlements) = 1
      THEN [threw |-> FALSE,
            limits |-> IF Known(entitlements[1])
                       THEN Some(ConfigLimits(config, entitlements[1]))
                       ELSE Undefined]
      ELSE IF \E i \in 1..Len(entitlements) : ~Known(entitlements[i])
      THEN [threw |-> TRUE, limits |-> Undefined]
      ELSE [threw |-> FALSE,
            limits |-> Some(computeUpperBound(config, entitlements))]

InitCtor ==
  /\ table = {}
  /\ clock = 0
  /\ calls = [c \in CallIds |-> IdleCall]
  /\ started = 0
  /\ admitted = [u \in Users |-> [t \in Ticks |-> 0]]
  /\ session = NoSession
  /\ eval \in {[fn |-> "input", config |-> config, entitlements |-> S,
                 helper |-> [threw |-> TRUE, config |-> config],
                 out |-> [threw |-> TRUE, limits |-> Undefined]] :
                 config \in {EntConfig,
                             [pro |-> Limits(Some(3), Undefined, Undefined)]},
                 S \in EntLists}

constructHelper ==
  /\ eval.fn = "input"
  /\ eval' = [eval EXCEPT !.fn = "constructor",
                          !.helper = EntitlementHelperNew(eval.config)]
  /\ UNCHANGED <<table, clock, calls, started, admitted, session>>

resolveWithHelper ==
  /\ eval.fn = "constructor"
  /\ ~eval.helper.threw
  /\ eval' = [eval EXCEPT !.fn = "getRateLimits",
                          !.out = getRateLimitsOf(eval.helper, eval.entitlements)]
  /\ UNCHANGED <<table, clock, calls, started, admitted, session>>

NextCtor == constructHelper \/ resolveWithHelper

SpecCtor == InitCtor /\ [][NextCtor]_vars

\* ------------------------------------------------------------------------
\* SpecHist: the two users' checkAndIncrement calls fill the table over
\* several hours, days and months, one call after another, and getHistory
\* is then asked for a user's rows of a period type, with the anchor they
\* were written under or another, with a small limit or with the default
\* ------------------------------------------------------------------------

HistLimits ==
  { Limits(Some(1), Some(2), Undefined),
    Limits(Undefined, Undefined, Some(2)) }

InitHist ==
  InitWith([limits : HistLimits, subscriptionStartedAt : Anchors])

StartCheckHist ==
  \E c \in CallIds, userId \in Users, t \in 0..SeqTick :
       /\ started < HistCalls
       /\ NumInFlight = 0
       /\ \A d \in CallIds : calls[d].op # "getHistory"
       /\ StartCheck(c, "checkAndIncrement", userId, session.limits,
                     session.subscriptionStartedAt, t)

StartGetHistoryHist ==
  \E c \in CallIds, userId \in Users, periodType \in PeriodTypes,
     subscriptionStartedAt \in Anchors, limit \in {1, 2, DefaultHistoryLimit} :
       /\ started < HistCalls
       /\ NumInFlight = 0
       /\ \A d \in CallIds : calls[d].op # "getHistory"
       /\ StartGetHistory(c, userId, periodType, subscriptionStartedAt, limit)

NextHist ==
  \/ StartCheckHist
  \/ StartGetHistoryHist
  \/ IncrementStep
  \/ \E c \in CallIds : getHistoryReturn(c)

SpecHist == InitHist /\ [][NextHist]_vars

\* ------------------------------------------------------------------------
\* SpecAgree: checkAndIncrement calls of one user, one after another; the
\* last of them is asked together with a checkOnly of the same user, limits,
\* anchor and instant, which reads and returns before the checkAndIncrement
\* takes its first step, so that both see the same table
\* ------------------------------------------------------------------------

InitAgree == InitWith([limits : RollLimits, subscriptionStartedAt : Anchors])

StartAgree ==
  \E t \in 0..RollTick :
       /\ started < AgreeCalls
       /\ NumInFlight = 0
       /\ calls[2].pc = "idle"
       /\ StartCheck(1, "checkAndIncrement", "u1", session.limits,
                     session.subscriptionStartedAt, t)

StartAgreeCheckOnly ==
  /\ calls[2].pc = "idle"
  /\ calls[1].pc = "getCurrentCounts"
  /\ calls[1].pending = PeriodTypes
  /\ StartCheck(2, "checkOnly", calls[1].userId, calls[1].limits,
                calls[1].subscriptionStartedAt, calls[1].tick)

NextAgree ==
  \/ StartAgree
  \/ StartAgreeCheckOnly
  \/ \E p \in PeriodTypes : getCountForPeriod(2, p)
  \/ checkOnlyReturn(2)
  \/ (~InFlight(2) /\ IncrementStep)

SpecAgree == InitAgree /\ [][NextAgree]_vars

\* ------------------------------------------------------------------------
\* Properties
\* ------------------------------------------------------------------------

Done(c) == calls[c].pc = "done"
Decided(c) == Done(c) /\ calls[c].result.kind = "decision"
Admitted(c) == Decided(c) /\ calls[c].result.allowed
Rejected(c) == Decided(c) /\ ~calls[c].result.allowed

RECURSIVE SumAdmitted(_, _)
SumAdmitted(u, ts) ==
  IF ts = {} THEN 0
  ELSE LET t == CHOOSE x \in ts : TRUE
       IN  admitted[u][t] + SumAdmitted(u, ts \ {t})

\* the calls of user u admitted so far whose `now` lies in the window of
\* period p that holds the instant of clock index t
WindowStart ==
  [p \in PeriodTypes |->
     [anchor \in Anchors |->
        [t \in Ticks |-> PeriodStart(p, anchor, ClockAt(t))]]]
AdmittedInWindow(u, p, anchor, t) ==
  SumAdmitted(u, {j \in Ticks :
                    WindowStart[p][anchor][j] = WindowStart[p][anchor][t]})

\* the count the table stores for a call's current period p (0 without a row)
StoredCount(call, p) ==
  LET rows == RowsFor(table, call.userId, p,
                      PeriodStart(p, call.subscriptionStartedAt, call.now))
  IN  IF rows = {} THEN 0 ELSE (CHOOSE r \in rows : TRUE).request_count

Violates(call, p) ==
  IsDefined(call.limits[p]) /\ StoredCount(call, p) >= Val(call.limits[p])

Rank(p) == CASE p = "hourly" -> 1 [] p = "daily" -> 2 [] p = "monthly" -> 3

\* C1: when the calls of one user run one after another with the same limits
\* and the same anchor, then for every period whose limit L is present the
\* calls admitted with `now` in one window of that period number at most L
\* (none when L = 0).
C1_AdmittedWithinLimit ==
  \A p \in PeriodTypes :
    IsDefined(session.limits[p]) =>
      \A t \in Ticks :
        AdmittedInWindow("u1", p, session.subscriptionStartedAt, t)
          <= Val(session.limits[p])

\* a call is rejected on a period whose window already holds as many admitted
\* calls as its limit allows
C1_Witness ==
  \E c \in CallIds, p \in PeriodTypes :
    /\ Rejected(c)
    /\ calls[c].op = "checkAndIncrement"
    /\ calls[c].result.exceededLimit = Some(p)
    /\ Val(session.limits[p]) >= 1
    /\ AdmittedInWindow("u1", p, session.subscriptionStartedAt, calls[c].tick)
         = Val(session.limits[p])

\* C3: whenever checkAndIncrement or checkOnly rejects, exceededLimit is the
\* first period in the order hourly, daily, monthly whose limit is present
\* and whose current count has reached it.
C3_FirstExceededPeriod ==
  \A c \in CallIds :
    Rejected(c) =>
      /\ IsDefined(calls[c].result.exceededLimit)
      /\ LET e == Val(calls[c].result.exceededLimit)
         IN  /\ Violates(calls[c], e)
             /\ \A q \in PeriodTypes : Rank(q) < Rank(e) => ~Violates(calls[c], q)

\* a rejection on the daily limit although the hourly limit is present (with
\* headroom) and the monthly limit is exceeded as well
C3_Witness ==
  \E c \in CallIds :
    /\ Rejected(c)
    /\ calls[c].result.exceededLimit = Some("daily")
    /\ IsDefined(calls[c].limits["hourly"])
    /\ Violates(calls[c], "monthly")

\* C9: for a checkAndIncrement call that no other call overlaps: on admit,
\* remaining[p] plus the count stored after the call is limit[p] for every
\* period with a present limit; on reject, remaining[p] is
\* max(0, limit[p] - count) for the count stored before (and after) the call.
C9_RemainingMatchesCounts ==
  \A c \in CallIds :
    (Decided(c) /\ calls[c].op = "checkAndIncrement") =>
      \A p \in PeriodTypes :
        IsDefined(calls[c].limits[p]) =>
          /\ IsDefined(calls[c].result.remaining[p])
          /\ IF calls[c].result.allowed
             THEN Val(calls[c].result.remaining[p]) + StoredCount(calls[c], p)
                    = Val(calls[c].limits[p])
             ELSE Val(calls[c].result.remaining[p])
                    = Max(0, Val(calls[c].limits[p]) - StoredCount(calls[c], p))

\* an admitted call that has incremented the counter of a limited period
C9_Witness ==
  \E c \in CallIds, p \in PeriodTypes :
    /\ Admitted(c)
    /\ calls[c].op = "checkAndIncrement"
    /\ IsDefined(calls[c].limits[p])
    /\ StoredCount(calls[c], p) >= 1

\* C2: under any interleaving of concurrent checkAndIncrement calls of one
\* user with at most c calls in flight at once, the calls admitted within one
\* window of a period whose limit is L never number more than L + c.
C2_AdmittedWithinLimitPlusInFlight ==
  \A p \in PeriodTypes :
    IsDefined(session.limits[p]) =>
      \A t \in Ticks :
        AdmittedInWindow("u1", p, session.subscriptionStartedAt, t)
          <= Val(session.limits[p]) + MaxInFlight

\* C4: a checkAndIncrement call that returns allowed = false has written
\* nothing: it has inserted or updated no row, and the step in which it
\* returns leaves the table as it is.
C4_RejectWritesNothing ==
  [][\A c \in CallIds :
       (Rejected(c)' /\ calls'[c].op = "checkAndIncrement") =>
         /\ calls'[c].written = {}
         /\ (~Done(c) => table' = table)]_vars

\* a call has been rejected while the table holds rows
C4_Witness ==
  \E c \in CallIds :
    /\ Rejected(c)
    /\ calls[c].op = "checkAndIncrement"
    /\ table # {}

\* C5: the request_count of every row is >= 0 and no step, concurrent calls
\* of one user included, decreases it.
C5_CountNeverDecreases ==
  [][\A r \in table :
       /\ r.request_count >= 0
       /\ \A r2 \in table' :
            r2.id = r.id => r2.request_count >= r.request_count]_vars

\* C6: the table holds at most one row per (user_id, period_type,
\* period_start), whatever the interleaving of the calls.
C6_OneRowPerPeriod ==
  \A r1 \in table, r2 \in table :
    (/\ r1.user_id = r2.user_id
     /\ r1.period_type = r2.period_type
     /\ r1.period_start = r2.period_start) => r1 = r2

\* two calls found no row for a period and both inserted: the index has
\* refused the second insert
C6_Witness ==
  \E c \in CallIds : calls[c].threw /\ table # {}

\* C8: a checkAndIncrement call writes counters only of the periods whose
\* limit is present in its own limits: every step that creates or changes a
\* row of period p is the write of a call whose limits[p] is present.
Present(limits) == {p \in PeriodTypes : IsDefined(limits[p])}
RowsOfType(tbl, p) == {r \in tbl : r.period_type = p}
C8_WritesOnlyLimitedPeriods ==
  [][/\ \A c \in CallIds : calls'[c].written \subseteq Present(calls'[c].limits)
     /\ \A p \in PeriodTypes :
          RowsOfType(table', p) # RowsOfType(table, p) =>
            \E c \in CallIds :
              /\ calls[c].op = "checkAndIncrement"
              /\ calls[c].inc[p].st = "write"
              /\ calls'[c].written = calls[c].written \cup {p}
              /\ IsDefined(calls[c].limits[p])]_vars

\* a call admitted with its daily limit absent has returned while the table
\* holds a daily row that another call has written
C8_Witness ==
  \E c \in CallIds :
    /\ Admitted(c)
    /\ calls[c].op = "checkAndIncrement"
    /\ ~IsDefined(calls[c].limits["daily"])
    /\ calls[c].written # {}
    /\ RowsOfType(table, "daily") # {}

\* the period of row r holds the instant the wall clock shows
RowCurrent(r) ==
  \E anchor \in Anchors : WindowStart[r.period_type][anchor][clock] = r.period_start

\* C7 as stated: no engine operation ever deletes a row, and once the period
\* of a row is no longer current its request_count is never changed again.
C7_NoChangeAfterPeriod ==
  [][\A r \in table :
       \E r2 \in table' :
         /\ r2.id = r.id
         /\ ~RowCurrent(r) => r2.request_count = r.request_count]_vars

\* C7 as amended: no engine operation ever deletes a row or changes its key,
\* and the request_count of a row is changed only by a checkAndIncrement call
\* of that user whose own `now` lies in the row's period (such a call may be
\* in flight still, and write, after the period is over).
C7_RowsKeptAndWrittenInPeriod ==
  [][\A r \in table :
       \E r2 \in table' :
         /\ r2.id = r.id
         /\ r2.user_id = r.user_id
         /\ r2.period_type = r.period_type
         /\ r2.period_start = r.period_start
         /\ r2.request_count # r.request_count =>
              \E c \in CallIds :
                /\ InFlight(c)
                /\ calls[c].op = "checkAndIncrement"
                /\ calls[c].userId = r.user_id
                /\ PeriodStart(r.period_type, calls[c].subscriptionStartedAt,
                               calls[c].now) = r.period_start]_vars

\* the row of an hour that is over is still in the table, with the requests
\* counted in it, beside the row of the hour that followed
C7_Witness ==
  \E r \in table, q \in table :
    /\ ~RowCurrent(r)
    /\ r.request_count >= 2
    /\ q.period_type = r.period_type
    /\ Before(r.period_start, q.period_start)

IsDigits(str) ==
  /\ Len(str) >= 1
  /\ \A i \in 1..Len(str) : \E d \in 1..Len(DigitChars) : str[i] = DigitChars[d]

\* C10: in every decision, admitted or rejected, remaining[p] is absent
\* exactly when limits[p] is absent, and the middleware sets the header
\* X-RateLimit-<Period>-Remaining exactly for the periods whose limit is
\* present, its value the decimal digits of a non-negative integer.
C10_RemainingAndHeadersFollowLimits ==
  \A c \in CallIds :
    Decided(c) =>
      /\ \A p \in PeriodTypes :
           IsDefined(calls[c].result.remaining[p]) <=> IsDefined(calls[c].limits[p])
      /\ calls[c].via = "middleware" =>
           /\ \A p \in PeriodTypes :
                IsDefined(calls[c].limits[p]) <=>
                  \E h \in calls[c].response.headers : h.name = HeaderName(p)
           /\ \A h \in calls[c].response.headers :
                /\ \E p \in PeriodTypes : h.name = HeaderName(p)
                /\ IsDigits(h.value)
                /\ \A g \in calls[c].response.headers : g.name = h.name => g = h

\* the middleware has answered a request whose limits leave the daily period
\* unlimited: the hourly header says "0", no daily header is set
C10_Witness ==
  \E c \in CallIds :
    /\ Decided(c)
    /\ calls[c].via = "middleware"
    /\ ~IsDefined(calls[c].limits["daily"])
    /\ [name |-> HeaderName("hourly"), value |-> <<"0">>]
         \in calls[c].response.headers

\* C11: checkOnly is read-only: no step of a checkOnly call, from its start
\* to its return, admitted or rejected, changes the counter table, so the
\* table after the call is the table before it unless another call wrote.
C11_CheckOnlyReadOnly ==
  [][\A c \in CallIds :
       (calls'[c] # calls[c] /\ calls'[c].op = "checkOnly") =>
         /\ table' = table
         /\ calls'[c].written = {}]_vars

\* a checkOnly call has returned a rejection: the hourly counter it read had
\* reached the limit, and the row holds that count still
C11_Witness ==
  \E c \in CallIds :
    /\ Rejected(c)
    /\ calls[c].op = "checkOnly"
    /\ \E r \in table : r.request_count = calls[c].counts["hourly"]

\* the row of user u for the window of period p that holds clock index t
WindowRows(u, p, anchor, t) == RowsFor(table, u, p, WindowStart[p][anchor][t])

\* C12: without concurrency, the first admitted request of a user in a period
\* creates, for each period with a present limit, a row with request_count 1
\* at that period's start, and each later admitted request in the period
\* updates that row in place by exactly +1 and creates no row: between calls
\* the window of a limited period holds no row before the first admission and
\* then one row counting the admissions, and every step that touches the
\* table either inserts one row with count 1 or adds 1 to one row.
C12_InsertThenUpdateInPlace ==
  /\ [](NumInFlight = 0 =>
          \A p \in PeriodTypes, t \in Ticks :
            LET rows == WindowRows("u1", p, session.subscriptionStartedAt, t)
                n == AdmittedInWindow("u1", p, session.subscriptionStartedAt, t)
            IN  IF IsDefined(session.limits[p]) /\ n >= 1
                THEN \E r \in rows : rows = {r} /\ r.request_count = n
                ELSE rows = {})
  /\ [][table' # table =>
          \/ \E r \in table' :
               /\ table' = table \cup {r}
               /\ r \notin table
               /\ r.request_count = 1
               /\ RowsFor(table, r.user_id, r.period_type, r.period_start) = {}
          \/ \E r \in table, r2 \in table' :
               /\ table' = (table \ {r}) \cup {r2}
               /\ r2 = [r EXCEPT !.request_count = @ + 1,
                                 !.updated_at = r2.updated_at]]_vars

\* the second request admitted in a day has returned, an hour after the
\* first: the day's row, created by the first, counts 2, beside two hourly
\* rows that count 1 each
C12_Witness ==
  /\ NumInFlight = 0
  /\ \E c \in CallIds, r \in table :
       /\ Admitted(c)
       /\ r.period_type = "daily"
       /\ r.period_start = getCurrentDayStart(calls[c].now)
       /\ r.request_count = 2
       /\ r.created_at # r.updated_at
       /\ r.updated_at = Some(calls[c].now)
  /\ Cardinality({r \in table : r.period_type = "hourly" /\ r.request_count = 1}) = 2

\* C13: the period_start of every row is the canonical start of its period at
\* the time of the request that created it: currentHourStart for an hourly
\* row, currentDayStart for a daily row, subscriptionMonthStart(anchor, .)
\* for a monthly row; it is the request's own timestamp only when that
\* timestamp is itself a period start.
C13_PeriodStartCanonical ==
  \A r \in table :
    LET at == Val(r.created_at)
        start == CASE r.period_type = "hourly" -> getCurrentHourStart(at)
                   [] r.period_type = "daily" -> getCurrentDayStart(at)
                   [] r.period_type = "monthly" ->
                        getSubscriptionMonthStart(session.subscriptionStartedAt, at)
    IN  /\ r.period_start = start
        /\ r.period_start.ms % MsPerHour = 0
        /\ r.period_type # "hourly" => r.period_start.ms = 0
        /\ r.period_start = at =>
             PeriodStart(r.period_type, session.subscriptionStartedAt, at) = at

\* a monthly row of an anchored user, created by a request in February, starts
\* on the anchor day of January, beside an hourly row whose start is the very
\* instant of the request that created it
C13_Witness ==
  /\ IsDefined(session.subscriptionStartedAt)
  /\ \E r \in table :
       /\ r.period_type = "monthly"
       /\ getUTCMonth(Val(r.created_at)) = 1
       /\ getUTCMonth(r.period_start) = 0
       /\ getUTCDate(r.period_start) = 31
  /\ \E r \in table :
       /\ r.period_type = "hourly"
       /\ r.period_start = Val(r.created_at)

\* two instants in the same hour of the same UTC day
SameHour(a, b) == a.day = b.day /\ a.ms \div MsPerHour = b.ms \div MsPerHour

\* the requests of user u admitted so far in the hour of instant a
AdmittedInHour(u, a) == SumAdmitted(u, {j \in Ticks : SameHour(ClockAt(j), a)})

\* the requests answered so far with a rejection (no call of SpecRoll throws)
RejectedSoFar == started - NumInFlight - SumAdmitted("u1", Ticks)

\* C14: a user whose hourly limit was used up is admitted by the first request
\* made in a later hour, provided the daily and monthly limits have headroom:
\* a request that finds no admission in its own hour and headroom in its day
\* and month is admitted, a new hourly row counts 1 for it, and the rows of
\* the hours before keep their counts.
C14_NextHourAdmits ==
  \A c \in CallIds :
    LET call == calls[c]
        own == IF Admitted(c) THEN 1 ELSE 0
    IN  (/\ Done(c)
         /\ call.op = "checkAndIncrement"
         /\ IsDefined(call.limits["hourly"])
         /\ Val(call.limits["hourly"]) >= 1
         /\ AdmittedInHour("u1", call.now) - own = 0
         /\ \A q \in {"daily", "monthly"} :
              IsDefined(call.limits[q]) =>
                AdmittedInWindow("u1", q, call.subscriptionStartedAt, call.tick)
                  - own < Val(call.limits[q]))
        => /\ Admitted(c)
           /\ \E r \in RowsOfType(table, "hourly") :
                /\ SameHour(r.period_start, call.now)
                /\ NotAfter(r.period_start, call.now)
                /\ r.request_count = 1
           /\ \A r \in RowsOfType(table, "hourly") :
                r.request_count = AdmittedInHour("u1", r.period_start)

\* with an hourly limit of 1 and a daily limit of 2: a request admitted at
\* 22:59:59.999, the next rejected in that hour, the third admitted at 23:00;
\* the row of 22:00 still counts 1 beside the new row of 23:00
C14_Witness ==
  /\ session.limits = Limits(Some(1), Some(2), Undefined)
  /\ started = 3
  /\ RejectedSoFar = 1
  /\ \E c \in CallIds :
       /\ Admitted(c)
       /\ calls[c].tick = 1
       /\ \E r \in RowsOfType(table, "hourly"), q \in RowsOfType(table, "hourly") :
            /\ Before(r.period_start, q.period_start)
            /\ r.request_count = 1
            /\ q.request_count = 1
            /\ q.period_start = calls[c].now

\* C15: when a read or a write of the store fails during checkAndIncrement,
\* the call ends with an error and no decision, and it has incremented or
\* inserted none of the user's counters.
C15_FailureLeavesNoIncrement ==
  \A c \in CallIds :
    (Done(c) /\ (calls[c].threw \/ calls[c].result.kind = "error")) =>
      /\ calls[c].result.kind = "error"
      /\ calls[c].written = {}

\* C16: the counter increment is idempotent under retry: performed twice for
\* the same (userId, periodType, periodStart) on behalf of one request, it
\* leaves the request_count that performing it once leaves.
C16_RetryIdempotent ==
  (eval.fn = "incrementPeriodCounter" /\ eval.retried) => eval.twice = eval.once

\* the rows of user u
OwnRows(tbl, u) == {r \in tbl : r.user_id = u}

\* C17: the calls of a user read and write only that user's rows. Every count
\* a call reads is the count of its own user's row, whatever rows other users
\* have; the row an increment selects and the entries getHistory returns are
\* the user's own; and a step of a call, abandoned calls included, leaves the
\* rows of every other user as they are.
C17_UserIsolation ==
  [][\A c \in CallIds :
       calls'[c] # calls[c] =>
         LET call == calls[c]
             u == calls'[c].userId
         IN  /\ \A v \in Users \ {u} : OwnRows(table', v) = OwnRows(table, v)
             /\ \A p \in PeriodTypes :
                  (call.pc = "getCurrentCounts" /\ p \in call.pending
                     /\ p \notin calls'[c].pending) =>
                    calls'[c].counts[p] =
                      Max(0, CHOOSE n \in {0} \cup {r.request_count : r \in
                               {q \in OwnRows(table, u) :
                                  /\ q.period_type = p
                                  /\ q.period_start =
                                       PeriodStart(p, call.subscriptionStartedAt,
                                                   call.now)}} :
                             \A r \in OwnRows(table, u) :
                               (/\ r.period_type = p
                                /\ r.period_start =
                                     PeriodStart(p, call.subscriptionStartedAt,
                                                 call.now)) => n = r.request_count)
             /\ \A p \in PeriodTypes :
                  IsDefined(calls'[c].inc[p].existing) =>
                    Val(calls'[c].inc[p].existing).user_id = u
             /\ calls'[c].result.kind = "history" =>
                  calls'[c].result.entries =
                    HistoryEntries(OwnRows(table, u), u, call.periodType,
                                   call.subscriptionStartedAt, call.limit)]_vars

\* both users have a counter for the same hour; a call of one user has been
\* admitted, a call of the other user was abandoned between its reads, which
\* found that user's own count, and its writes
C17_Witness ==
  \E c \in CallIds, d \in CallIds, r \in table, q \in table :
    /\ calls[c].result.kind = "abandoned"
    /\ calls[c].op = "checkAndIncrement"
    /\ calls[c].pending = {}
    /\ calls[c].written = {}
    /\ calls[c].counts["hourly"] >= 1
    /\ Admitted(d)
    /\ calls[d].userId # calls[c].userId
    /\ r.user_id = "u1" /\ q.user_id = "u2"
    /\ r.period_type = q.period_type
    /\ r.period_start = q.period_start

\* the names of a list
NamesOf(S) == {S[i] : i \in 1..Len(S)}

\* C18: for a list S of two or more names and every field f, getRateLimits(S)[f]
\* is absent iff getRateLimits of some single name of S has f absent, and is
\* otherwise the maximum of getRateLimits(e)[f] over the names e of S; lists
\* with the same names, in any order and with any repetition, resolve alike.
C18_UpperBoundOfSingles ==
  (eval.fn = "getRateLimits" /\ Len(eval.entitlements) >= 2) =>
    LET S == eval.entitlements
        single(e) == getRateLimits(EntConfig, <<e>>)
    IN  /\ \A f \in PeriodTypes :
             /\ ~IsDefined(eval.limits[f]) <=>
                  \E e \in NamesOf(S) : ~IsDefined(single(e)[f])
             /\ IsDefined(eval.limits[f]) =>
                  /\ \A e \in NamesOf(S) : Val(single(e)[f]) <= Val(eval.limits[f])
                  /\ \E e \in NamesOf(S) : single(e)[f] = eval.limits[f]
        /\ \A T \in EntLists :
             (Len(T) >= 2 /\ NamesOf(T) = NamesOf(S)) =>
               getRateLimits(EntConfig, T) = eval.limits

\* starter, pro, starter: hourly is the larger of 2 and 3, daily and monthly
\* are unlimited because pro leaves them so
C18_Witness ==
  /\ eval.fn = "getRateLimits"
  /\ eval.entitlements = <<"starter", "pro", "starter">>
  /\ eval.limits = Limits(Some(3), Undefined, Undefined)

\* a name stands for itself when it is a key of the config, for "none" if not
KnownOrNone(config, e) == IF e \in DOMAIN config THEN e ELSE "none"

\* C19: getRateLimits returns config["none"] for the empty list and for a
\* single name that is no key of the config, and in a list of several names
\* every unknown name contributes the limits of config["none"].
C19_UnknownFallsBackToNone ==
  eval.fn = "getRateLimits" =>
    LET S == eval.entitlements
    IN  /\ Len(S) = 0 => eval.limits = EntConfig["none"]
        /\ (Len(S) = 1 /\ S[1] \notin DOMAIN EntConfig) =>
             eval.limits = EntConfig["none"]
        /\ Len(S) >= 2 =>
             eval.limits =
               getRateLimits(EntConfig,
                             [i \in 1..Len(S) |-> KnownOrNone(EntConfig, S[i])])

\* the instant n milliseconds (less than a day) after t
PlusMs(t, n) == Date(t.day + ((t.ms + n) \div MsPerDay), (t.ms + n) % MsPerDay)

\* C20: for every instant now, getCurrentHourStart(now) has minutes, seconds
\* and milliseconds zero and start <= now < start + 1 hour;
\* getCurrentDayStart(now) has hours, minutes, seconds and milliseconds zero
\* and start <= now < start + 1 day; applied to its own result, each returns
\* that result.
C20_HourAndDayStart ==
  /\ eval.fn = "getCurrentHourStart" =>
       /\ eval.out.ms % MsPerHour = 0
       /\ eval.out.ms \in 0..(MsPerDay - 1)
       /\ NotAfter(eval.out, eval.arg)
       /\ Before(eval.arg, PlusMs(eval.out, MsPerHour))
       /\ getCurrentHourStart(eval.out) = eval.out
       /\ eval.prev = "getCurrentHourStart" => eval.out = eval.arg
  /\ eval.fn = "getCurrentDayStart" =>
       /\ eval.out.ms = 0
       /\ NotAfter(eval.out, eval.arg)
       /\ Before(eval.arg, Date(eval.out.day + 1, 0))
       /\ getCurrentDayStart(eval.out) = eval.out
       /\ eval.prev = "getCurrentDayStart" => eval.out = eval.arg

\* the hour start of the last millisecond of the leap day was 23:00 on
\* February 29th; the day start of that is 00:00 on February 29th
C20_Witness ==
  /\ eval.fn = "getCurrentDayStart"
  /\ eval.prev = "getCurrentHourStart"
  /\ eval.arg = At(2024, 2, 29, 23, 0, 0, 0)
  /\ eval.out = At(2024, 2, 29, 0, 0, 0, 0)
  /\ getCurrentHourStart(At(2024, 2, 29, 23, 59, 59, 999)) = eval.arg

\* C21: the next start of a period is a function of the current start alone:
\* getNextHourStart(t) = getNextHourStart(getCurrentHourStart(t)) and the same
\* for days and subscription months; the next hour start is the current hour
\* start plus one hour and the next day start is the current day start plus
\* one day, also when that crosses the end of a day, a month or a year
C21_NextOfCurrent ==
  /\ eval.fn = "getNextHourStart" =>
       /\ eval.out = getNextHourStart(getCurrentHourStart(eval.arg))
       /\ eval.out = PlusMs(getCurrentHourStart(eval.arg), MsPerHour)
  /\ eval.fn = "getNextDayStart" =>
       /\ eval.out = getNextDayStart(getCurrentDayStart(eval.arg))
       /\ eval.out = Date(getCurrentDayStart(eval.arg).day + 1, 0)
  /\ eval.fn = "getNextSubscriptionMonthStart" =>
       eval.out = getNextSubscriptionMonthStart(
                    eval.anchor, getSubscriptionMonthStart(eval.anchor, eval.arg))

\* the next day start of the day start of the last millisecond of 2024 is
\* the first midnight of 2025
C21_Witness ==
  /\ eval.fn = "getNextDayStart"
  /\ eval.prev = "getCurrentDayStart"
  /\ eval.arg = At(2024, 12, 31, 0, 0, 0, 0)
  /\ eval.out = At(2025, 1, 1, 0, 0, 0, 0)
  /\ getNextDayStart(At(2024, 12, 31, 23, 59, 59, 999)) = eval.out

\* the month before the month (year, month)
PrevMonthOf(year, month) ==
  IF month = 0 THEN [year |-> year - 1, month |-> 11]
  ELSE [year |-> year, month |-> month - 1]

\* the number of days of the month (year, month), from the calendar
DaysInMonth(year, month) ==
  IF month = 1
  THEN (IF year % 4 = 0 /\ (year % 100 # 0 \/ year % 400 = 0) THEN 29 ELSE 28)
  ELSE IF month \in {3, 5, 8, 10} THEN 30 ELSE 31

\* C22: with an anchor on day D, getSubscriptionMonthStart is midnight UTC on
\* day min(D, last day of the month) of the month it selects; it selects
\* now's month when now's day >= min(D, last day of now's month), equality
\* included, and the month before (December of the year before, in January)
\* otherwise
C22_MonthStartClamped ==
  (eval.fn = "getSubscriptionMonthStart" /\ IsDefined(eval.anchor)) =>
    LET D == CivilFromDays(Val(eval.anchor).day).date
        now == CivilFromDays(eval.arg.day)
        out == CivilFromDays(eval.out.day)
        prev == PrevMonthOf(now.year, now.month)
    IN  /\ eval.out.ms = 0
        /\ out.date = Min(D, DaysInMonth(out.year, out.month))
        /\ IF now.date >= Min(D, DaysInMonth(now.year, now.month))
           THEN out.year = now.year /\ out.month = now.month
           ELSE out.year = prev.year /\ out.month = prev.month

\* anchor on the 31st: at the end of February 28th 2025, the clamped anchor
\* day, the month that started that midnight is selected
C22_Witness ==
  /\ eval.fn = "getSubscriptionMonthStart"
  /\ eval.anchor = Some(At(2024, 1, 31, 10, 15, 0, 0))
  /\ eval.arg = At(2025, 2, 28, 23, 59, 59, 999)
  /\ eval.out = At(2025, 2, 28, 0, 0, 0, 0)

\* C23: without an anchor getSubscriptionMonthStart is midnight UTC on the
\* 1st of now's calendar month and getNextSubscriptionMonthStart is midnight
\* UTC on the 1st of the month after, January of the next year in December
C23_CalendarMonthWithoutAnchor ==
  LET now == CivilFromDays(eval.arg.day)
  IN  /\ (eval.fn = "getSubscriptionMonthStart" /\ eval.anchor = Null) =>
           eval.out = At(now.year, now.month + 1, 1, 0, 0, 0, 0)
      /\ (eval.fn = "getNextSubscriptionMonthStart" /\ eval.anchor = Null) =>
           eval.out = IF now.month = 11
                      THEN At(now.year + 1, 1, 1, 0, 0, 0, 0)
                      ELSE At(now.year, now.month + 2, 1, 0, 0, 0, 0)

\* no anchor: from the last millisecond of December 2024 the next month
\* starts on January 1st 2025
C23_Witness ==
  /\ eval.fn = "getNextSubscriptionMonthStart"
  /\ eval.anchor = Null
  /\ eval.arg = At(2024, 12, 31, 23, 59, 59, 999)
  /\ eval.out = At(2025, 1, 1, 0, 0, 0, 0)

\* C24: for a fixed anchor the subscription months partition time: with
\* S = getSubscriptionMonthStart(anchor, now) and
\* N = getNextSubscriptionMonthStart(anchor, now), S <= now < N, every
\* instant t of [S, N) (S itself, the last millisecond before N and every
\* instant of TimeNows in between) has getSubscriptionMonthStart(anchor, t) = S,
\* and getSubscriptionMonthStart(anchor, N) = N
C24_MonthsPartitionTime ==
  /\ eval.fn = "getNextSubscriptionMonthStart" =>
       LET S == getSubscriptionMonthStart(eval.anchor, eval.arg)
           N == eval.out
       IN  /\ NotAfter(S, eval.arg)
           /\ Before(eval.arg, N)
           /\ getSubscriptionMonthStart(eval.anchor, S) = S
           /\ getSubscriptionMonthStart(eval.anchor, PlusMs(N, -1)) = S
           /\ \A t \in TimeNows :
                (NotAfter(S, t) /\ Before(t, N)) =>
                  getSubscriptionMonthStart(eval.anchor, t) = S
           /\ getSubscriptionMonthStart(eval.anchor, N) = N
  /\ (eval.fn = "getSubscriptionMonthStart"
      /\ eval.prev = "getNextSubscriptionMonthStart") => eval.out = eval.arg

\* anchor on the 31st: the month that starts on January 31st 2025 ends on
\* February 28th, and the month start of February 28th is February 28th
C24_Witness ==
  /\ eval.fn = "getSubscriptionMonthStart"
  /\ eval.prev = "getNextSubscriptionMonthStart"
  /\ eval.anchor = Some(At(2024, 1, 31, 10, 15, 0, 0))
  /\ eval.arg = At(2025, 2, 28, 0, 0, 0, 0)
  /\ eval.out = eval.arg
  /\ getNextSubscriptionMonthStart(eval.anchor, At(2025, 2, 15, 10, 15, 30, 500))
       = eval.arg

\* the call whose result eval holds reached the provider and got an answer
Answered(fn) ==
  /\ eval.fn = fn
  /\ eval.userId # ""
  /\ eval.response.kind = "response"

\* C25: when the provider answers 404, getSubscriptionInfo returns
\* { entitlements: ["none"], subscriptionStartedAt: null } as a value and
\* throws nothing
C25_NotFoundIsNone ==
  (Answered("getSubscriptionInfo") /\ eval.response.status = 404) =>
    eval.out = [threw |-> FALSE, entitlements |-> <<"none">>,
                subscriptionStartedAt |-> Null]

C25_Witness ==
  /\ Answered("getSubscriptionInfo")
  /\ eval.response.status = 404
  /\ ~eval.out.threw
  /\ eval.out.entitlements = <<"none">>

\* C26: when the provider answers with a status outside 200..299 other than
\* 404, getSubscriptionInfo and getEntitlements throw and return nothing; the
\* "none" snapshot is not put in the place of the failure
C26_ErrorStatusThrows ==
  \A fn \in {"getSubscriptionInfo", "getEntitlements"} :
    (/\ Answered(fn)
     /\ eval.response.status # 404
     /\ ~(eval.response.status >= 200 /\ eval.response.status <= 299)) =>
      /\ eval.out.threw
      /\ eval.out.entitlements = <<>>

\* the provider refuses the key (401): getEntitlements throws
C26_Witness ==
  /\ Answered("getEntitlements")
  /\ eval.response.status = 401
  /\ eval.out.threw

\* a snapshot was returned for a subscriber the provider described
Described ==
  /\ Answered("getSubscriptionInfo")
  /\ eval.response.status = 200
  /\ eval.response.body = "subscriber"
  /\ ~eval.out.threw

\* the entries of the response, and what the claims say of one of them
EntriesOf(response) == {response.entitlements[i] : i \in DOMAIN response.entitlements}
NotExpired(e, now) ==
  e.expires_date = Null \/ ~NotAfter(Val(e.expires_date), now)
SandboxBacked(e, response) ==
  \E p \in DOMAIN response.subscriptions :
    p = e.product_identifier /\ response.subscriptions[p].sandbox
Survives(e) ==
  /\ NotExpired(e, eval.now)
  /\ eval.testMode \/ ~SandboxBacked(e, eval.response)
\* the snapshot is the stand-in for "no entitlement"
IsFallback(out) ==
  out.entitlements = <<"none">> /\ out.subscriptionStartedAt = Null

\* C28: every entitlement name getSubscriptionInfo returns, the "none"
\* stand-in aside, is the name of an entitlement that has no expires_date or
\* one later than now and, with testMode false, is not backed by a
\* subscription flagged sandbox; with testMode true the sandbox-backed
\* entitlements that are not expired are returned too
C28_OnlyActiveAndSandboxFiltered ==
  Described =>
    /\ ~IsFallback(eval.out) =>
         \A i \in DOMAIN eval.out.entitlements :
           \E e \in EntriesOf(eval.response) :
             /\ e.name = eval.out.entitlements[i]
             /\ NotExpired(e, eval.now)
             /\ ~eval.testMode => ~SandboxBacked(e, eval.response)
    /\ eval.testMode =>
         \A e \in EntriesOf(eval.response) :
           (NotExpired(e, eval.now) /\ SandboxBacked(e, eval.response)) =>
             \E i \in DOMAIN eval.out.entitlements :
               eval.out.entitlements[i] = e.name

\* production mode, "pro" bought in the sandbox and not expired, "starter"
\* bought in production for life: only "starter" is returned
C28_Witness ==
  /\ Described
  /\ ~eval.testMode
  /\ Len(eval.response.entitlements) = 2
  /\ LET pro == eval.response.entitlements[1]
         starter == eval.response.entitlements[2]
     IN  /\ pro.name = "pro" /\ pro.product_identifier = "sand"
         /\ pro.expires_date = Some(At(2025, 3, 31, 23, 59, 59, 999))
         /\ starter.name = "starter" /\ starter.product_identifier = "prod"
         /\ starter.expires_date = Null
  /\ eval.out.entitlements = <<"starter">>

\* C29: subscriptionStartedAt is the least purchase_date of the entitlements
\* that pass the expiry and sandbox filters, and of those alone
C29_EarliestSurvivingPurchase ==
  (Described /\ ~IsFallback(eval.out)) =>
    LET survivors == {e \in EntriesOf(eval.response) : Survives(e)}
    IN  /\ IsDefined(eval.out.subscriptionStartedAt)
        /\ \E e \in survivors :
             e.purchase_date = Val(eval.out.subscriptionStartedAt)
        /\ \A e \in survivors :
             NotAfter(Val(eval.out.subscriptionStartedAt), e.purchase_date)

\* the expired entitlement was bought first, the one still running later:
\* the later purchase is the start of the subscription
C29_Witness ==
  /\ Described
  /\ Len(eval.response.entitlements) = 2
  /\ LET old == eval.response.entitlements[1]
         cur == eval.response.entitlements[2]
     IN  /\ old.expires_date = Some(At(2025, 2, 1, 0, 0, 0, 0))
         /\ old.purchase_date = At(2024, 12, 31, 10, 15, 0, 0)
         /\ cur.expires_date = Null
         /\ cur.product_identifier = "prod"
         /\ cur.purchase_date = At(2025, 1, 15, 8, 0, 0, 0)
  /\ eval.out.subscriptionStartedAt = Some(At(2025, 1, 15, 8, 0, 0, 0))

\* C30: every snapshot getSubscriptionInfo returns has at least one
\* entitlement, and its subscriptionStartedAt is null exactly when its
\* entitlements are ["none"]
C30_AbsentIffNone ==
  (eval.fn = "getSubscriptionInfo" /\ ~eval.out.threw) =>
    /\ Len(eval.out.entitlements) > 0
    /\ (eval.out.subscriptionStartedAt = Null) <=>
         (eval.out.entitlements = <<"none">>)

\* the counters kept for a user, without the user's name and the row ids
CountersOf(u) ==
  {[period_type |-> r.period_type, period_start |-> r.period_start,
    request_count |-> r.request_count, created_at |-> r.created_at,
    updated_at |-> r.updated_at] : r \in {x \in table : x.user_id = u}}

\* both requests of a pair are over
PairOver ==
  /\ started > 0 /\ started % 2 = 0
  /\ Done(1) /\ Done(2)

\* C27: a request whose provider lookup threw is not failed: it is checked
\* with the limits of config["none"] and no anchor, and its decision, its
\* response and its counter updates are those of the same request by a user
\* whose snapshot is {["none"], null}
C27_LookupErrorFallsBackToNone ==
  /\ \A c \in CallIds :
       (calls[c].via = "middleware" /\ calls[c].userId = "u1"
        /\ calls[c].pc # "idle") =>
         /\ calls[c].limits = MwConfig["none"]
         /\ calls[c].subscriptionStartedAt = Null
         /\ Done(c) => calls[c].result.kind = "decision"
  /\ PairOver =>
       /\ calls[1].result = calls[2].result
       /\ calls[1].response = calls[2].response
       /\ calls[1].written = calls[2].written
       /\ CountersOf("u1") = CountersOf("u2")
       /\ admitted["u1"] = admitted["u2"]

\* the second pair of requests in the same hour: both are rejected with 429
\* on the hourly limit of "none", after the first pair was admitted
C27_Witness ==
  /\ PairOver
  /\ started = 4
  /\ calls[1].userId = "u1" /\ calls[2].userId = "u2"
  /\ Rejected(1) /\ Rejected(2)
  /\ calls[1].response.status = 429
  /\ calls[1].result.exceededLimit = Some("hourly")
  /\ \E r \in table : r.user_id = "u1" /\ r.period_type = "hourly"
                      /\ r.request_count = 1

\* C31: a request in the middleware never waits forever on the provider: a
\* lookup that is not answered ends by itself (and the request goes on with
\* the "none" fallback)
C31_MiddlewareLookupEnds ==
  \A c \in CallIds :
    (calls[c].pc = "getSubscriptionInfo" /\ calls[c].via = "middleware")
      ~> (calls[c].pc # "getSubscriptionInfo")

\* a request the middleware passed through because shouldSkip answered true
Skipped(c) == calls[c].via = "middleware" /\ calls[c].op = "middleware"
\* a request the middleware limits
Limited(c) == calls[c].via = "middleware" /\ calls[c].op = "checkAndIncrement"

\* C32: when shouldSkip returns true the middleware runs the downstream
\* handler and does nothing else: no getUserId, no provider lookup, no
\* counter read, no counter write and no rate-limit header
C32_SkipDoesNoLimiting ==
  /\ [](\A c \in CallIds : Skipped(c) =>
          /\ Done(c)
          /\ calls[c].response.next = 1
          /\ calls[c].response.status = 0
          /\ calls[c].response.headers = {}
          /\ calls[c].effects = {}
          /\ calls[c].pending = {} /\ calls[c].counts = ZeroCounts
          /\ calls[c].written = {}
          /\ calls[c].result = NoResult)
  /\ [][\A c \in CallIds :
          (Skipped(c)' /\ calls'[c] # calls[c]) =>
            (table' = table /\ admitted' = admitted /\ clock' = clock)]_vars

\* a request is passed through after an earlier one was counted
C32_Witness ==
  \E c \in CallIds :
    /\ Skipped(c) /\ Done(c)
    /\ calls[c].response.next = 1
    /\ started = 2
    /\ \E r \in table : r.request_count = 1

\* C33: a request that is not skipped reaches the downstream handler exactly
\* once if it is admitted and never if it is rejected; a rejected request is
\* answered 429 with the exceededLimit and the remaining of the decision;
\* the handler does not run before the decision is there
C33_NextOnlyAfterAdmit ==
  /\ [](\A c \in CallIds : Limited(c) =>
          /\ ~Done(c) => (calls[c].response.next = 0
                          /\ calls[c].response.status = 0)
          /\ Admitted(c) => (calls[c].response.next = 1
                             /\ calls[c].response.status = 0)
          /\ Rejected(c) =>
               /\ calls[c].response.next = 0
               /\ calls[c].response.status = 429
               /\ calls[c].response.body.exceededLimit
                    = calls[c].result.exceededLimit
               /\ calls[c].response.body.remaining = calls[c].result.remaining)
  /\ [][\A c \in CallIds :
          (Limited(c) /\ Limited(c)' /\ Done(c) /\ Done(c)') =>
            calls'[c].response = calls[c].response]_vars

\* one request admitted and passed on, the next one rejected with 429
C33_Witness ==
  \E c, d \in CallIds :
    /\ Limited(c) /\ Admitted(c) /\ calls[c].response.next = 1
    /\ Limited(d) /\ Rejected(d) /\ calls[d].response.status = 429
    /\ calls[d].response.next = 0
    /\ calls[d].response.body.exceededLimit = Some("hourly")

\* C34: a config that lacks the key "none" is rejected when the helper is
\* constructed: no helper exists for it and no list of entitlements is ever
\* resolved against it
C34_NoneRequiredAtConstruction ==
  (eval.fn \in {"constructor", "getRateLimits"}
   /\ "none" \notin DOMAIN eval.config) =>
    (eval.helper.threw /\ eval.fn # "getRateLimits")

\* the rows getHistory selects from: those of the user and the period type
HistoryRows(tbl, u, p) == {r \in tbl : r.user_id = u /\ r.period_type = p}

\* call c returns from getHistory in this step
HistoryReturns(c) == calls[c].pc = "getHistory" /\ calls'[c].pc = "done"

\* C35: getHistory returns at most `limit` entries (100 when the caller gives
\* none), each one a row of that user and period type, in strictly decreasing
\* order of period_start, and no row left out is more recent than a row
\* returned: the entries are the min(limit, number of rows) latest rows
C35_HistoryLatestFirst ==
  [][\A c \in CallIds :
       HistoryReturns(c) =>
         LET call == calls[c]
             e == calls'[c].result.entries
             R == HistoryRows(table, call.userId, call.periodType)
         IN  /\ calls'[c].result.kind = "history"
             /\ Len(e) <= call.limit
             /\ Len(e) = Min(call.limit, Cardinality(R))
             /\ \A i \in 1..Len(e) :
                  \E r \in R : /\ r.period_start = e[i].period_start
                               /\ r.request_count = e[i].request_count
             /\ \A i \in 1..Len(e), j \in 1..Len(e) :
                  i < j => Before(e[j].period_start, e[i].period_start)
             /\ \A r \in R :
                  (\A i \in 1..Len(e) : e[i].period_start # r.period_start) =>
                    \A i \in 1..Len(e) : Before(r.period_start, e[i].period_start)]_vars

\* getHistory with limit 1 has returned the later of a user's two hourly
\* rows while the table also holds daily rows and an hourly row of the other
\* user
C35_Witness ==
  \E c \in CallIds :
    LET call == calls[c]
        R == HistoryRows(table, call.userId, "hourly")
    IN  /\ call.pc = "done"
        /\ call.result.kind = "history"
        /\ call.periodType = "hourly"
        /\ call.limit = 1
        /\ Len(call.result.entries) = 1
        /\ Cardinality(R) = 2
        /\ \E r \in R : Before(r.period_start, call.result.entries[1].period_start)
        /\ \E q \in table : q.user_id # call.userId /\ q.period_type = "hourly"
        /\ \E q \in table : q.user_id = call.userId /\ q.period_type = "daily"

\* an instant one hour, one day later
HourLater(d) ==
  IF d.ms + MsPerHour < MsPerDay THEN [day |-> d.day, ms |-> d.ms + MsPerHour]
  ELSE [day |-> d.day + 1, ms |-> d.ms + MsPerHour - MsPerDay]
DayLater(d) == [day |-> d.day + 1, ms |-> d.ms]

\* C36: every entry getHistory returns ends strictly after it starts: an
\* hourly entry one hour after, a daily entry one day after, a monthly entry
\* at getNextSubscriptionMonthStart(anchor, period_start); and with the rows
\* written under the anchor the history is asked with, an entry ends no
\* later than the next more recent entry starts
C36_HistoryPeriodEnds ==
  [][\A c \in CallIds :
       HistoryReturns(c) =>
         LET call == calls[c]
             e == calls'[c].result.entries
         IN  /\ \A i \in 1..Len(e) :
                  /\ Before(e[i].period_start, e[i].period_end)
                  /\ call.periodType = "hourly" =>
                       e[i].period_end = HourLater(e[i].period_start)
                  /\ call.periodType = "daily" =>
                       e[i].period_end = DayLater(e[i].period_start)
                  /\ call.periodType = "monthly" =>
                       e[i].period_end =
                         getNextSubscriptionMonthStart(call.subscriptionStartedAt,
                                                       e[i].period_start)
             /\ call.subscriptionStartedAt = session.subscriptionStartedAt =>
                  \A i \in 1..Len(e), j \in 1..Len(e) :
                    i < j => NotAfter(e[j].period_end, e[i].period_start)]_vars

\* getHistory has returned two monthly entries of a subscription anchored on
\* the 31st, the earlier one ending where the later one starts, on the 28th
\* of February
C36_Witness ==
  \E c \in CallIds :
    LET call == calls[c]
        e == call.result.entries
    IN  /\ call.pc = "done"
        /\ call.result.kind = "history"
        /\ call.periodType = "monthly"
        /\ IsDefined(call.subscriptionStartedAt)
        /\ call.subscriptionStartedAt = session.subscriptionStartedAt
        /\ Len(e) = 2
        /\ e[2].period_end = e[1].period_start
        /\ e[1].period_start = At(2025, 2, 28, 0, 0, 0, 0)

\* both slots hold a call that was admitted after reading n as the count of
\* the hour
BothAdmittedAfterReading(n) ==
  \A c \in CallIds : Admitted(c) /\ calls[c].counts["hourly"] = n

\* C37: two concurrent checkAndIncrement calls of a user, both admitted after
\* reading the count n of a period, can leave the stored count at n + 1: one
\* of the two increments is lost. Every update stores the count its call
\* selected plus one, whatever the row holds when the update runs, so two
\* calls that selected n both store n + 1; the witness is that interleaving.
C37_LostUpdate ==
  [][\A c \in CallIds, p \in PeriodTypes :
       (/\ calls[c].pc = "incrementCounters"
        /\ calls[c].inc[p].st = "write"
        /\ IsDefined(calls[c].inc[p].existing)
        /\ calls'[c].inc[p].st = "done") =>
         \A r \in table' :
           r.id = Val(calls[c].inc[p].existing).id =>
             r.request_count = Val(calls[c].inc[p].existing).request_count + 1]_vars

\* both calls read 1, both were admitted, and the row they both updated
\* holds 2
C37_Witness ==
  /\ BothAdmittedAfterReading(1)
  /\ \A c \in CallIds : calls[c].written = {"hourly"} /\ ~calls[c].threw
  /\ \A r \in table : r.request_count = 2
  /\ admitted["u1"][0] = 3

\* C38: with a store that answers every query, no interleaving of concurrent
\* checkAndIncrement calls of one user makes a call that passed the limit
\* check fail: no insert is refused by the unique index, and every such call
\* returns a decision
C38_PassedCheckGetsDecision ==
  \A c \in CallIds :
    (calls[c].op = "checkAndIncrement"
     /\ calls[c].pc \in {"incrementCounters", "done"}
     /\ checkLimits(calls[c].counts, calls[c].limits).allowed) =>
      /\ ~calls[c].threw
      /\ Done(c) => Admitted(c)

\* C39: for every answer of the provider, the snapshot the middleware
\* resolves limits from is the one SubscriptionHelper.getSubscriptionInfo
\* gives for that answer with testMode = false: no entitlement backed by a
\* sandbox subscription is in it
C39_MiddlewareSnapshotFiltersSandbox ==
  (eval.fn = "RevenueCatHelper.getSubscriptionInfo" /\ eval.userId # "") =>
    eval.out = getSubscriptionInfo(eval.userId, FALSE, eval.response, eval.now)

\* the checkOnly and the checkAndIncrement asked with it have both returned
PairOfChecksOver ==
  /\ calls[2].op = "checkOnly" /\ Done(2)
  /\ calls[1].op = "checkAndIncrement" /\ Done(1)

\* C40: checkOnly agrees with checkAndIncrement on the same table, limits,
\* anchor and instant with no other call in between: checkOnly returns
\* allowed = true exactly when checkAndIncrement admits, on rejection both
\* name the same exceeded limit, and on admit checkOnly's remaining is one
\* more than checkAndIncrement's for every period whose limit is present
\* (and absent for the others, in both)
C40_CheckOnlyAgrees ==
  PairOfChecksOver =>
    LET only == calls[2].result
        both == calls[1].result
    IN  /\ only.kind = "decision" /\ both.kind = "decision"
        /\ only.allowed <=> both.allowed
        /\ only.exceededLimit = both.exceededLimit
        /\ ~only.allowed => IsDefined(only.exceededLimit)
        /\ only.allowed =>
             \A p \in PeriodTypes :
               IF IsDefined(calls[1].limits[p])
               THEN /\ IsDefined(only.remaining[p]) /\ IsDefined(both.remaining[p])
                    /\ Val(only.remaining[p]) = Val(both.remaining[p]) + 1
               ELSE only.remaining[p] = Undefined /\ both.remaining[p] = Undefined

\* after an earlier admitted call, checkOnly said allowed with one request
\* left in some period and the checkAndIncrement asked with it was admitted
\* with none left
C40_Witness ==
  /\ PairOfChecksOver
  /\ calls[2].result.allowed /\ calls[1].result.allowed
  /\ table # {} /\ started = 3
  /\ \E p \in PeriodTypes :
       /\ calls[2].counts[p] = 1
       /\ calls[2].result.remaining[p] = Some(1)
       /\ calls[1].result.remaining[p] = Some(0)

\* both were turned down for the same limit
C40_WitnessRejected ==
  /\ PairOfChecksOver
  /\ ~calls[2].result.allowed /\ ~calls[1].result.allowed
  /\ calls[2].result.exceededLimit = Some("daily")

====
